---- MODULE Spec2Model ----
(***************************************************************************)
(* Verification model of the PLC subsystem: the tree-walking interpreter   *)
(* and its memory (plc/plc_runtime.py), the register bridge                *)
(* (plc/modbus_interface.py) and the scan loop (plc/main.py).              *)
(*                                                                         *)
(* Python values are tagged records [k, v]:                                *)
(*   k = "bool"  v in {0,1}      (bool is an int subclass in Python)       *)
(*   k = "num"   v = the number in tenths (22.0 is 220, the int 1 is 10)   *)
(*   k = "none"  v = 0           (None)                                    *)
(* and [k |-> "raise"] stands for an exception leaving an evaluation.      *)
(* Dictionaries are functions whose DOMAIN is the set of keys.             *)
(***************************************************************************)
EXTENDS Integers, Sequences, FiniteSets, TLC

(***************************************************************************)
(* Python values                                                           *)
(***************************************************************************)
PyBool(b) == [k |-> "bool", v |-> IF b THEN 1 ELSE 0]

PyNum(tenths) == [k |-> "num", v |-> tenths]

PyNone == [k |-> "none", v |-> 0]

Raised == [k |-> "raise", v |-> 0]

IsRaised(x) == x.k = "raise"

\* the numeric reading of a bool or number, in tenths (True is 1, i.e. 10 tenths)
Tenths(x) == IF x.k = "bool" THEN 10 * x.v ELSE x.v

\* Python truthiness: None, False, 0 and 0.0 are falsy
Truthy(x) == x.k # "none" /\ x.v # 0

\* Python ==: None equals only None; bools and numbers compare numerically
PyEq(a, b) ==
    IF a.k = "none" \/ b.k = "none" THEN a.k = b.k ELSE Tenths(a) = Tenths(b)

\* integer division truncating toward zero, as int() and float division round
TruncDiv(a, b) ==
    IF (a >= 0) = (b > 0) THEN (IF a >= 0 THEN a ELSE -a) \div (IF b > 0 THEN b ELSE -b)
    ELSE -((IF a >= 0 THEN a ELSE -a) \div (IF b > 0 THEN b ELSE -b))

\* int(x): TypeError on None, truncation toward zero otherwise; the result in units
PyInt(x) ==
    IF x.k = "none" THEN Raised
    ELSE IF x.k = "bool" THEN PyNum(10 * x.v)
    ELSE PyNum(10 * TruncDiv(x.v, 10))

\* the machine integer of an int-valued number
Units(x) == TruncDiv(Tenths(x), 10)

(***************************************************************************)
(* Dictionaries                                                            *)
(***************************************************************************)
EmptyDict == [n \in {} |-> PyNone]

\* d[key] = val
DictSet(d, key, val) ==
    [n \in (DOMAIN d) \cup {key} |-> IF n = key THEN val ELSE d[n]]

\* d.get(key, default)
DictGet(d, key, default) == IF key \in DOMAIN d THEN d[key] ELSE default

(***************************************************************************)
(* PLCMemory                                                               *)
(***************************************************************************)
\* a lookup that tries the classes in the order Internal, Output, Input
get_value_internal_first(m, name) ==
    IF name \in DOMAIN m.internal THEN m.internal[name]
    ELSE IF name \in DOMAIN m.outputs THEN m.outputs[name]
    ELSE IF name \in DOMAIN m.inputs THEN m.inputs[name]
    ELSE PyNone

\* PLCMemory.get_value: Input, then Output, then Internal; None when absent
get_value(m, name) ==
    IF name \in DOMAIN m.inputs THEN m.inputs[name]
    ELSE IF name \in DOMAIN m.outputs THEN m.outputs[name]
    ELSE IF name \in DOMAIN m.internal THEN m.internal[name]
    ELSE PyNone

\* a set_value that keeps a copy of every output among the internals
set_value_mirroring(m, name, value, var_type) ==
    IF var_type = "input" THEN [m EXCEPT !.inputs = DictSet(m.inputs, name, value)]
    ELSE IF var_type = "output"
    THEN [m EXCEPT !.outputs = DictSet(m.outputs, name, value),
                   !.internal = DictSet(m.internal, name, value)]
    ELSE [m EXCEPT !.internal = DictSet(m.internal, name, value)]

\* PLCMemory.set_value
set_value(m, name, value, var_type) ==
    IF var_type = "input" THEN [m EXCEPT !.inputs = DictSet(m.inputs, name, value)]
    ELSE IF var_type = "output" THEN [m EXCEPT !.outputs = DictSet(m.outputs, name, value)]
    ELSE [m EXCEPT !.internal = DictSet(m.internal, name, value)]

(***************************************************************************)
(* Expressions (st_parser.py builds them, plc_runtime.py walks them)       *)
(***************************************************************************)
Lit(val) == [type |-> "literal", value |-> val]

Var(n) == [type |-> "variable", name |-> n]

BinOp(o, l, r) == [type |-> "binary_op", op |-> o, left |-> l, right |-> r]

Cmp(o, l, r) == [type |-> "comparison", op |-> o, left |-> l, right |-> r]

Logic(o, l, r) == [type |-> "logical_op", op |-> o, left |-> l, right |-> r]

Unary(o, e) == [type |-> "unary_op", op |-> o, expr |-> e]

Call(n) == [type |-> "function_call", name |-> n]

\* a binary_op whose division has no guard: a zero divisor is ZeroDivisionError
ArithValue_unguarded(op, l, r) ==
    IF l.k = "none" \/ r.k = "none" THEN Raised
    ELSE IF op = "+" THEN PyNum(Tenths(l) + Tenths(r))
    ELSE IF op = "-" THEN PyNum(Tenths(l) - Tenths(r))
    ELSE IF op = "*" THEN PyNum(TruncDiv(Tenths(l) * Tenths(r), 10))
    ELSE IF op = "/" THEN (IF Tenths(r) = 0 THEN Raised
                           ELSE PyNum(TruncDiv(Tenths(l) * 10, Tenths(r))))
    ELSE PyNone

\* left <op> right of a binary_op, both operands already evaluated
ArithValue(op, l, r) ==
    IF op = "/" /\ r.k # "none" /\ r.v = 0 THEN PyNum(0)
    ELSE IF l.k = "none" \/ r.k = "none" THEN Raised
    ELSE IF op = "+" THEN PyNum(Tenths(l) + Tenths(r))
    ELSE IF op = "-" THEN PyNum(Tenths(l) - Tenths(r))
    ELSE IF op = "*" THEN PyNum(TruncDiv(Tenths(l) * Tenths(r), 10))
    ELSE IF op = "/" THEN PyNum(TruncDiv(Tenths(l) * 10, Tenths(r)))
    ELSE PyNone

\* left <op> right of a comparison: ordering None is a TypeError, = and <> never raise
CmpValue(op, l, r) ==
    IF op = "=" THEN PyBool(PyEq(l, r))
    ELSE IF op = "<>" THEN PyBool(~PyEq(l, r))
    ELSE IF l.k = "none" \/ r.k = "none" THEN Raised
    ELSE IF op = ">" THEN PyBool(Tenths(l) > Tenths(r))
    ELSE IF op = "<" THEN PyBool(Tenths(l) < Tenths(r))
    ELSE IF op = ">=" THEN PyBool(Tenths(l) >= Tenths(r))
    ELSE IF op = "<=" THEN PyBool(Tenths(l) <= Tenths(r))
    ELSE PyNone

\* Python's `and` / `or` on two evaluated operands: the result is an operand
LogicValue(op, l, r) ==
    IF op = "AND" THEN (IF Truthy(l) THEN r ELSE l)
    ELSE IF op = "OR" THEN (IF Truthy(l) THEN l ELSE r)
    ELSE PyNone

UnaryValue(op, x) ==
    IF op = "NOT" THEN PyBool(~Truthy(x))
    ELSE IF op = "-" THEN (IF x.k = "none" THEN Raised ELSE PyNum(-Tenths(x)))
    ELSE PyNone

RECURSIVE evaluate_expression(_, _)
\* PLCRuntime._evaluate_expression
evaluate_expression(m, expr) ==
    IF expr.type = "literal" THEN expr.value
    ELSE IF expr.type = "variable" THEN get_value(m, expr.name)
    ELSE IF expr.type \in {"binary_op", "comparison", "logical_op"} THEN
        LET left == evaluate_expression(m, expr.left)
            right == evaluate_expression(m, expr.right)
        IN  IF IsRaised(left) THEN Raised
            ELSE IF IsRaised(right) THEN Raised
            ELSE IF expr.type = "binary_op" THEN ArithValue(expr.op, left, right)
            ELSE IF expr.type = "comparison" THEN CmpValue(expr.op, left, right)
            ELSE LogicValue(expr.op, left, right)
    ELSE IF expr.type = "unary_op" THEN
        LET operand == evaluate_expression(m, expr.expr)
        IN  IF IsRaised(operand) THEN Raised ELSE UnaryValue(expr.op, operand)
    ELSE PyNone

(***************************************************************************)
(* Statements                                                              *)
(***************************************************************************)
Assign(t, e) == [type |-> "assignment", target |-> t, value |-> e]

Elsif(c, b) == [type |-> "elsif", condition |-> c, then_block |-> b]

\* else_block <<>> is the parser's else_block = None
If(c, t, ei, el) ==
    [type |-> "if", condition |-> c, then_block |-> t, elsif_clauses |-> ei,
     else_block |-> el]

CallStmt(n) == [type |-> "function_call", name |-> n]

\* the result of running statements: the memory reached and whether an
\* exception is propagating
Done(m) == [mem |-> m, raised |-> FALSE]

Threw(m) == [mem |-> m, raised |-> TRUE]

\* an assignment that also writes declared inputs
assign_target_any(m, target, value) ==
    IF target \in DOMAIN m.outputs THEN set_value(m, target, value, "output")
    ELSE IF target \in DOMAIN m.inputs THEN set_value(m, target, value, "input")
    ELSE set_value(m, target, value, "internal")

\* the assignment branch of PLCRuntime._execute_statement, value already evaluated
assign_target(m, target, value) ==
    IF target \in DOMAIN m.outputs THEN set_value(m, target, value, "output")
    ELSE IF target \in DOMAIN m.inputs THEN m
    ELSE set_value(m, target, value, "internal")

RECURSIVE execute_statement(_, _)
RECURSIVE execute_block(_, _)
RECURSIVE execute_elsifs(_, _, _)
RECURSIVE execute_if_statement(_, _)

\* a statement loop that goes on with the next statement after one that raised
execute_block_past_errors(m, block) ==
    IF block = <<>> THEN Done(m)
    ELSE LET r == execute_statement(m, Head(block))
         IN  IF r.raised THEN Threw(execute_block(r.mem, Tail(block)).mem)
             ELSE execute_block(r.mem, Tail(block))

\* `for stmt in block: self._execute_statement(stmt)`; an exception ends the loop
execute_block(m, block) ==
    IF block = <<>> THEN Done(m)
    ELSE LET r == execute_statement(m, Head(block))
         IN  IF r.raised THEN r ELSE execute_block(r.mem, Tail(block))

\* an ELSIF loop without the `return`: after the block of a true clause the
\* later clauses and the ELSE block are still tried
execute_elsifs_no_return(m, clauses, else_block) ==
    IF clauses = <<>> THEN execute_block(m, else_block)
    ELSE LET elsif_condition == evaluate_expression(m, Head(clauses).condition)
         IN  IF IsRaised(elsif_condition) THEN Threw(m)
             ELSE IF Truthy(elsif_condition)
                  THEN LET r == execute_block(m, Head(clauses).then_block)
                       IN  IF r.raised THEN r
                           ELSE execute_elsifs(r.mem, Tail(clauses), else_block)
             ELSE execute_elsifs(m, Tail(clauses), else_block)

\* the ELSIF loop and the ELSE block of PLCRuntime._execute_if_statement
execute_elsifs(m, clauses, else_block) ==
    IF clauses = <<>> THEN execute_block(m, else_block)
    ELSE LET elsif_condition == evaluate_expression(m, Head(clauses).condition)
         IN  IF IsRaised(elsif_condition) THEN Threw(m)
             ELSE IF Truthy(elsif_condition)
                  THEN execute_block(m, Head(clauses).then_block)
             ELSE execute_elsifs(m, Tail(clauses), else_block)

\* PLCRuntime._execute_if_statement
execute_if_statement(m, statement) ==
    LET condition == evaluate_expression(m, statement.condition)
    IN  IF IsRaised(condition) THEN Threw(m)
        ELSE IF Truthy(condition) THEN execute_block(m, statement.then_block)
        ELSE execute_elsifs(m, statement.elsif_clauses, statement.else_block)

\* PLCRuntime._execute_statement (a function call is only logged)
execute_statement(m, statement) ==
    IF statement.type = "assignment" THEN
        LET value == evaluate_expression(m, statement.value)
        IN  IF IsRaised(value) THEN Threw(m)
            ELSE Done(assign_target(m, statement.target, value))
    ELSE IF statement.type = "if" THEN execute_if_statement(m, statement)
    ELSE Done(m)

(***************************************************************************)
(* Programs and the runtime's memory                                       *)
(***************************************************************************)
\* parse() returned None, or the file is absent
NoProgram == [name |-> "", variables |-> EmptyDict, statements |-> <<>>, loaded |-> FALSE]

Program(n, vs, ss) == [name |-> n, variables |-> vs, statements |-> ss, loaded |-> TRUE]

NoInit == [type |-> "absent"]

\* st_parser.Variable
Variable(ty, init, in, out) ==
    [type |-> ty, initial_value |-> init, is_input |-> in, is_output |-> out]

\* PLCRuntime._get_default_value
get_default_value(type_name, initial_value) ==
    IF initial_value.type = "literal" THEN initial_value.value
    ELSE IF type_name = "BOOL" THEN PyBool(FALSE)
    ELSE IF type_name \in {"INT", "REAL", "TIME"} THEN PyNum(0)
    ELSE PyNone

\* PLCRuntime._initialize_memory
initialize_memory(prog) ==
    LET vs == prog.variables
        init(n) == get_default_value(vs[n].type, vs[n].initial_value)
        ins == {n \in DOMAIN vs : vs[n].is_input}
        outs == {n \in DOMAIN vs : ~vs[n].is_input /\ vs[n].is_output}
        ints == {n \in DOMAIN vs : ~vs[n].is_input /\ ~vs[n].is_output}
    IN  [inputs |-> [n \in ins |-> init(n)],
         outputs |-> [n \in outs |-> init(n)],
         internal |-> [n \in ints |-> init(n)]]

\* PLCRuntime._initialize_default_memory
initialize_default_memory ==
    [inputs |-> ("SystemEnable" :> PyBool(FALSE)) @@ ("RoomTemperature" :> PyNum(200))
                @@ ("RoomHumidity" :> PyNum(500)) @@ ("SetpointTemp" :> PyNum(220))
                @@ ("SetpointHumidity" :> PyNum(450)) @@ ("TempDeadband" :> PyNum(10))
                @@ ("HumidityDeadband" :> PyNum(50)),
     outputs |-> ("FanSpeed" :> PyNum(0)) @@ ("ChillerOn" :> PyBool(FALSE))
                 @@ ("SystemStatus" :> PyNum(0)) @@ ("AlarmActive" :> PyBool(FALSE)),
     internal |-> ("TempError" :> PyNum(0)) @@ ("HumidityError" :> PyNum(0))
                  @@ ("CoolingRequired" :> PyBool(FALSE))
                  @@ ("DehumidRequired" :> PyBool(FALSE))]

\* a PLCRuntime that builds no memory when it is given no program
runtime_memory_unfilled(prog) ==
    IF prog.loaded THEN initialize_memory(prog)
    ELSE [inputs |-> EmptyDict, outputs |-> EmptyDict, internal |-> EmptyDict]

\* the memory PLCRuntime.__init__ builds
runtime_memory(prog) ==
    IF prog.loaded THEN initialize_memory(prog) ELSE initialize_default_memory

(***************************************************************************)
(* One interpreter cycle                                                   *)
(***************************************************************************)
\* Memory holds Python floats. A register word w becomes the double nearest
\* to w / 10, written fl(w/10) and modelled by its tenths w. The Default
\* Controller subtracts two such doubles, compares the difference with a third
\* and multiplies it by 20: these three operations are computed below on the
\* exact values of the doubles (IEEE 754 binary64, round to nearest, ties to
\* even), in integers small enough for the model checker.

\* floor(log2(t / 10)) for a number of tenths t in 1..65535
float_exponent(t) ==
    (CHOOSE j \in 0..16 : 10 * 2^j <= 16 * t /\ 16 * t < 10 * 2^(j + 1)) - 4

\* fl(t/10) is a multiple of 2^(-ulp_shift(t))
ulp_shift(t) == IF t > 0 THEN 52 - float_exponent(t) ELSE 52

\* 2^k modulo 10, for k >= 1
pow2mod10(k) == <<2, 4, 8, 6>>[((k - 1) % 4) + 1]

\* fl(t/10) = t/10 + rounding_error(t) / (10 * 2^ulp_shift(t))
rounding_error(t) ==
    IF t = 0 THEN 0
    ELSE LET rem == ((t % 10) * pow2mod10(ulp_shift(t))) % 10
         IN  IF rem = 0 THEN 0 ELSE IF rem < 5 THEN -rem ELSE 10 - rem

\* n / 10 is a power of two
tenths_power_of_two(n) == \E j \in 0..16 : 16 * n = 10 * 2^j

\* an offset q in units of 1 / (10 * 2^K), names as in float_sub
float_value(n, q, K) == [n |-> n, q |-> q, K |-> K]

\* temp_error = fl(a/10) - fl(b/10) as Python computes it, for tenths a, b in
\* 0..65535: the double n/10 + q / (10 * 2^K) with n = a - b
float_sub(a, b) ==
    LET n == a - b
        ka == ulp_shift(a)
        kb == ulp_shift(b)
        K == IF ka > kb THEN ka ELSE kb
        \* the exact difference of the two doubles
        q == rounding_error(a) * 2^(K - ka) - rounding_error(b) * 2^(K - kb)
        an == IF n >= 0 THEN n ELSE -n
        below == tenths_power_of_two(an) /\ (IF n > 0 THEN q < 0 ELSE q > 0)
        kc == 52 - (float_exponent(an) - (IF below THEN 1 ELSE 0))
        s == K - kc
        \* the exact difference is X * 2^(-K); X modulo 2^sh
        xmod(sh) ==
            ((2^sh * (((n % 10) * pow2mod10(K - sh)) % 10) + q) % (10 * 2^sh)) \div 10
        rho == xmod(s)
        half == 2^(s - 1)
        odd == xmod(s + 1) >= 2^s
        up == rho > half \/ (rho = half /\ odd)
    IN  IF n = 0 THEN float_value(0, 0, 52)
        ELSE IF kc >= K THEN float_value(n, q, K)
        ELSE float_value(n, q - 10 * rho + (IF up THEN 10 * 2^s ELSE 0), K)

\* x > fl(d/10) for a double x from float_sub and tenths d in 0..65535
float_gt(x, d) ==
    IF x.n # d THEN x.n > d
    ELSE LET kd == ulp_shift(d)
             m == IF kd < x.K THEN kd ELSE x.K
         IN  x.q * 2^(kd - m) > rounding_error(d) * 2^(x.K - m)

\* int(x * 20) for a double x from float_sub: the product is rounded to a
\* double, then truncated toward zero
float_scaled_int(x) ==
    LET t == 2 * (IF x.n >= 0 THEN x.n ELSE -x.n)
        qs == IF x.n > 0 THEN x.q ELSE -x.q
        lg == CHOOSE j \in 0..17 : 2^j <= t /\ t < 2^(j + 1)
        Ez == lg - (IF t = 2^lg /\ qs < 0 THEN 1 ELSE 0)
        g == x.K + Ez - 53
        den == 2^g
        fl == qs \div den
        rem == qs - fl * den
        w == IF g <= 0 THEN qs
             ELSE IF 2 * rem > den \/ (2 * rem = den /\ fl % 2 = 1) THEN fl + 1
             ELSE fl
        mag == IF w < 0 THEN t - 1 ELSE t
    IN  IF x.n = 0 THEN 0 ELSE IF x.n > 0 THEN mag ELSE -mag

\* int(fl(t/10) * 10) for a word t in 0..65535: the product t + e / 2^k is
\* rounded to a double (ties go to t, whose mantissa is even), then truncated
float_times_ten_int(t) ==
    LET k == ulp_shift(t)
        e == rounding_error(t)
        lg == CHOOSE j \in 0..16 : 2^j <= t /\ t < 2^(j + 1)
        \* just under a power of two the doubles are half as far apart
        below == t = 2^lg /\ e < 0
        kt == 52 - lg + (IF below THEN 1 ELSE 0)
        half == 2^(k - kt - 1)
        mag == IF e < 0 THEN -e ELSE e
    IN  IF t = 0 THEN 0
        ELSE IF e < 0 /\ mag > half THEN t - 1
        ELSE t

\* a fan speed that follows the error without the limits 30 and 100
fan_speed_for_unclamped(temp_error) == PyNum(10 * float_scaled_int(temp_error))

\* min(100, max(30, int(temp_error * 20))), as a Python int
fan_speed_for(temp_error) ==
    LET scaled == float_scaled_int(temp_error)
        lo == IF scaled > 30 THEN scaled ELSE 30
    IN  PyNum(10 * (IF lo < 100 THEN lo ELSE 100))

\* a Default Controller that leaves the outputs as they are when disabled
execute_default_logic_holding(m, enabled) ==
    IF ~Truthy(enabled) THEN [mem |-> m, raised |-> FALSE]
    ELSE [mem |-> [m EXCEPT !.outputs =
                      DictSet(DictSet(DictSet(@, "ChillerOn", PyBool(FALSE)),
                                      "FanSpeed", PyNum(200)),
                              "SystemStatus", PyNum(20))],
          raised |-> FALSE]

\* a Default Controller that ramps the fan: each enabled cycle adds 10 to the
\* speed the previous cycle left, up to 100
execute_default_logic_ramping(m, enabled) ==
    IF ~Truthy(enabled) THEN
        Done([m EXCEPT !.outputs =
                 DictSet(DictSet(DictSet(@, "FanSpeed", PyNum(0)),
                                 "ChillerOn", PyBool(FALSE)), "SystemStatus", PyNum(0))])
    ELSE
        LET fan == Tenths(DictGet(m.outputs, "FanSpeed", PyNum(0)))
        IN  Done([m EXCEPT !.outputs =
                     DictSet(DictSet(DictSet(@, "ChillerOn", PyBool(TRUE)),
                                     "SystemStatus", PyNum(10)),
                             "FanSpeed", PyNum(IF fan < 900 THEN fan + 100 ELSE 1000))])

\* PLCRuntime._execute_default_logic; a missing key is a KeyError. The inputs
\* are numbers (doubles); TempError and HumidityError are kept to the tenth
execute_default_logic(m, enabled) ==
    IF ~Truthy(enabled) THEN
        Done([m EXCEPT !.outputs =
                 DictSet(DictSet(DictSet(@, "FanSpeed", PyNum(0)),
                                 "ChillerOn", PyBool(FALSE)), "SystemStatus", PyNum(0))])
    ELSE IF ~({"RoomTemperature", "SetpointTemp", "RoomHumidity", "SetpointHumidity"}
                 \subseteq DOMAIN m.inputs) THEN Threw(m)
    ELSE
    LET temp_error ==
            ArithValue("-", m.inputs["RoomTemperature"], m.inputs["SetpointTemp"])
        humidity_error ==
            ArithValue("-", m.inputs["RoomHumidity"], m.inputs["SetpointHumidity"])
        m1 == [m EXCEPT !.internal =
                  DictSet(DictSet(@, "TempError", temp_error),
                          "HumidityError", humidity_error)]
    IN  IF IsRaised(temp_error) \/ IsRaised(humidity_error) THEN Threw(m)
        ELSE IF ~({"TempDeadband", "HumidityDeadband"} \subseteq DOMAIN m.inputs)
        THEN Threw(m1)
        ELSE IF m.inputs["TempDeadband"].k = "none"
                \/ m.inputs["HumidityDeadband"].k = "none"
        THEN Threw(m1)
        ELSE
        LET temp_double ==
                float_sub(Tenths(m.inputs["RoomTemperature"]),
                          Tenths(m.inputs["SetpointTemp"]))
            humidity_double ==
                float_sub(Tenths(m.inputs["RoomHumidity"]),
                          Tenths(m.inputs["SetpointHumidity"]))
            cooling_required ==
                PyBool(float_gt(temp_double, Tenths(m.inputs["TempDeadband"])))
            dehumid_required ==
                PyBool(float_gt(humidity_double, Tenths(m.inputs["HumidityDeadband"])))
            m2 == [m1 EXCEPT !.internal =
                      DictSet(DictSet(@, "CoolingRequired", cooling_required),
                              "DehumidRequired", dehumid_required)]
        IN  IF Truthy(cooling_required) \/ Truthy(dehumid_required) THEN
                Done([m2 EXCEPT !.outputs =
                         DictSet(DictSet(DictSet(@, "ChillerOn", PyBool(TRUE)),
                                         "SystemStatus", PyNum(10)),
                                 "FanSpeed",
                                 IF Truthy(cooling_required)
                                 THEN fan_speed_for(temp_double) ELSE PyNum(500))])
            ELSE
                Done([m2 EXCEPT !.outputs =
                         DictSet(DictSet(DictSet(@, "ChillerOn", PyBool(FALSE)),
                                         "FanSpeed", PyNum(200)),
                                 "SystemStatus", PyNum(20))])

\* a runtime that keeps its place in the program: after a cycle that raised
\* (AlarmActive set) the next cycle goes on after the first statement
run_logic_resuming(prog, m, enabled) ==
    IF prog.loaded /\ prog.statements # <<>>
    THEN IF "AlarmActive" \in DOMAIN m.outputs /\ m.outputs["AlarmActive"] = PyBool(TRUE)
         THEN execute_block(m, Tail(prog.statements))
         ELSE execute_block(m, prog.statements)
    ELSE execute_default_logic(m, enabled)

\* the body of the try block of PLCRuntime.execute_cycle
run_logic(prog, m, enabled) ==
    IF prog.loaded /\ prog.statements # <<>> THEN execute_block(m, prog.statements)
    ELSE execute_default_logic(m, enabled)

\* an execute_cycle whose except clause only logs
execute_cycle_log_only(prog, m) ==
    run_logic(prog, m, DictGet(m.inputs, "SystemEnable", PyBool(FALSE))).mem

\* an execute_cycle whose alarm follows the cycle: set by a cycle that raises,
\* cleared by one that does not
execute_cycle_clearing(prog, m) ==
    LET enabled == DictGet(m.inputs, "SystemEnable", PyBool(FALSE))
        r == run_logic(prog, m, enabled)
    IN  [r.mem EXCEPT !.outputs = DictSet(@, "AlarmActive", PyBool(r.raised))]

\* PLCRuntime.execute_cycle on memory m: the except clause sets AlarmActive
execute_cycle(prog, m) ==
    LET enabled == DictGet(m.inputs, "SystemEnable", PyBool(FALSE))
        r == run_logic(prog, m, enabled)
    IN  IF r.raised
        THEN [r.mem EXCEPT !.outputs = DictSet(@, "AlarmActive", PyBool(TRUE))]
        ELSE r.mem

(***************************************************************************)
(* The register bridge (ModbusInterface)                                   *)
(***************************************************************************)
CommandNames ==
    {"SystemEnable", "SetpointTemp", "SetpointHumidity", "TempDeadband",
     "HumidityDeadband"}

StatusNames ==
    {"RoomTemperature", "RoomHumidity", "FanSpeed", "ChillerOn", "SystemStatus",
     "AlarmActive"}

\* the keys of ModbusInterface.register_map
RegisterNames ==
    CommandNames \cup StatusNames
    \cup {"SensorTemp", "SensorHumidity", "ActuatorFanSpeed", "ActuatorChiller"}

\* ModbusInterface._initialize_datastore: zeros, then the default setpoints
initialize_datastore ==
    [r \in RegisterNames |->
        IF r = "SetpointTemp" THEN 220
        ELSE IF r = "SetpointHumidity" THEN 450
        ELSE IF r = "TempDeadband" THEN 10
        ELSE IF r = "HumidityDeadband" THEN 50
        ELSE 0]

\* ModbusInterface._write_register
write_register(regs, name, value) ==
    IF name \in RegisterNames THEN [regs EXCEPT ![name] = value] ELSE regs

\* word / 10.0
scaled_word(word) == ArithValue("/", PyNum(10 * word), PyNum(100))

\* a decoding that takes every command word as it is, unscaled
decode_command_unscaled(name, word) ==
    IF name = "SystemEnable" THEN PyBool(word # 0) ELSE PyNum(10 * word)

\* the value update_server_registers stores in Memory.inputs for a command register
decode_command(name, word) ==
    IF name = "SystemEnable" THEN PyBool(word # 0) ELSE scaled_word(word)

\* the command block copied into Memory.inputs (update_server_registers, first half)
copy_commands(m, regs) ==
    [m EXCEPT !.inputs =
        [n \in (DOMAIN m.inputs) \cup CommandNames |->
            IF n \in CommandNames THEN decode_command(n, regs[n]) ELSE m.inputs[n]]]

\* a read_inputs that also copies the command block at the start of the cycle
read_inputs_ok_copying(m, regs, words) ==
    LET temp == scaled_word(words[1])
        humidity == scaled_word(words[2])
        m1 == [m EXCEPT !.inputs =
                  DictSet(DictSet(@, "RoomTemperature", temp), "RoomHumidity", humidity)]
    IN  [mem |-> copy_commands(m1, regs),
         regs |-> write_register(write_register(regs, "RoomTemperature", words[1]),
                                 "RoomHumidity", words[2])]

\* a read_inputs that publishes int(temp) and int(humidity), unscaled
read_inputs_ok_unscaled(m, regs, words) ==
    LET temp == scaled_word(words[1])
        humidity == scaled_word(words[2])
        m1 == [m EXCEPT !.inputs =
                  DictSet(DictSet(@, "RoomTemperature", temp), "RoomHumidity", humidity)]
    IN  [mem |-> m1,
         regs |-> write_register(write_register(regs, "RoomTemperature", Units(PyInt(temp))),
                                 "RoomHumidity", Units(PyInt(humidity)))]

\* a read_inputs that keeps the readings with the outputs as well
read_inputs_ok_into_outputs(m, regs, words) ==
    LET temp == scaled_word(words[1])
        humidity == scaled_word(words[2])
        m1 == [m EXCEPT !.inputs =
                  DictSet(DictSet(@, "RoomTemperature", temp), "RoomHumidity", humidity),
                        !.outputs =
                  DictSet(DictSet(@, "RoomTemperature", temp), "RoomHumidity", humidity)]
    IN  [mem |-> m1,
         regs |-> write_register(write_register(regs, "RoomTemperature", words[1]),
                                 "RoomHumidity", words[2])]

\* read_inputs after a non-error response carrying the words <<t, h>>
read_inputs_ok(m, regs, words) ==
    LET temp == scaled_word(words[1])
        humidity == scaled_word(words[2])
        m1 == [m EXCEPT !.inputs =
                  DictSet(DictSet(@, "RoomTemperature", temp), "RoomHumidity", humidity)]
        t10 == float_times_ten_int(words[1])
        h10 == float_times_ten_int(words[2])
    IN  [mem |-> m1,
         regs |-> write_register(write_register(regs, "RoomTemperature", t10),
                                 "RoomHumidity", h10)]

\* int(outputs.get(name, default)) for the four published outputs
output_int(m, name, default) == PyInt(DictGet(m.outputs, name, default))

\* one of the four int() conversions of update_server_registers raises
publish_raises(m) ==
    \/ IsRaised(output_int(m, "FanSpeed", PyNum(0)))
    \/ IsRaised(output_int(m, "ChillerOn", PyBool(FALSE)))
    \/ IsRaised(output_int(m, "SystemStatus", PyNum(0)))
    \/ IsRaised(output_int(m, "AlarmActive", PyBool(FALSE)))

\* the status block written from Memory.outputs (update_server_registers, second
\* half); an int() that raises leaves all four registers as they were
publish_status(m, regs) ==
    LET fan_speed == output_int(m, "FanSpeed", PyNum(0))
        chiller_on == output_int(m, "ChillerOn", PyBool(FALSE))
        system_status == output_int(m, "SystemStatus", PyNum(0))
        alarm_active == output_int(m, "AlarmActive", PyBool(FALSE))
    IN  IF IsRaised(fan_speed) \/ IsRaised(chiller_on) \/ IsRaised(system_status)
           \/ IsRaised(alarm_active)
        THEN regs
        ELSE write_register(
                 write_register(
                     write_register(
                         write_register(regs, "FanSpeed", Units(fan_speed)),
                         "ChillerOn", Units(chiller_on)),
                     "SystemStatus", Units(system_status)),
                 "AlarmActive", Units(alarm_active))

\* the two words write_outputs hands to the client, or Raised
actuator_words(m) ==
    LET fan_speed == output_int(m, "FanSpeed", PyNum(0))
        chiller_on == output_int(m, "ChillerOn", PyBool(FALSE))
    IN  IF IsRaised(fan_speed) \/ IsRaised(chiller_on) THEN <<>>
        ELSE <<Units(fan_speed), Units(chiller_on)>>

\* a register word the wire protocol can carry
IsWord(w) == w \in 0..65535

(***************************************************************************)
(* Bounds of the model and the programs it is run on                       *)
(***************************************************************************)
\* scan iterations explored
MaxIter == 2

\* supervisory register writes explored
MaxWrites == 1

\* the longest measured cycle_duration, in time units
MaxDuration == 2

\* cycle_time of run_cycle (0.1 s), in time units of 50 ms
cycle_time == 2

\* the sensor word pairs <<temperature, humidity>> the plant's update step writes
SensorPairs == {<<260, 500>>, <<200, 560>>}

\* the plant's datastore as setup_modbus_server leaves it: all zeros
PlantInitial == <<0, 0>>

\* the registers a supervisory client writes: every command register, and one
\* register of each other block
SupervisoryTargets == CommandNames \cup {"RoomTemperature", "FanSpeed", "SensorTemp"}

\* the words a supervisory client writes
SupervisoryWords == {1, 250}

Num(units) == Lit(PyNum(10 * units))

True == Lit(PyBool(TRUE))

False == Lit(PyBool(FALSE))

\* A thermostat: assigns to an input, branches on the inputs, and references
\* the undeclared name Missing in arithmetic when the room is hot.
ProgThermo ==
    Program("Thermo",
        ("SystemEnable" :> Variable("BOOL", NoInit, TRUE, FALSE))
        @@ ("RoomTemperature" :> Variable("REAL", NoInit, TRUE, FALSE))
        @@ ("SetpointTemp" :> Variable("REAL", Num(22), TRUE, FALSE))
        @@ ("FanSpeed" :> Variable("INT", NoInit, FALSE, TRUE))
        @@ ("ChillerOn" :> Variable("BOOL", NoInit, FALSE, TRUE))
        @@ ("Demand" :> Variable("REAL", NoInit, FALSE, FALSE)),
        << Assign("RoomTemperature", Num(30)),
           If(Logic("AND", Var("SystemEnable"),
                    Cmp(">", Var("RoomTemperature"), Var("SetpointTemp"))),
              << Assign("ChillerOn", True), Assign("FanSpeed", Num(80)) >>,
              << Elsif(Var("SystemEnable"),
                       << Assign("ChillerOn", False), Assign("FanSpeed", Num(20)) >>) >>,
              << Assign("ChillerOn", False), Assign("FanSpeed", Num(0)) >>),
           If(Cmp(">", Var("RoomTemperature"), Num(25)),
              << Assign("Demand", BinOp("+", Var("Missing"), Num(1))) >>, <<>>, <<>>) >>)

\* Declares bridge-written names in other classes than the bridge writes them
\* to, and reads the undeclared name Missing bare and under an equality.
ProgClash ==
    Program("Clash",
        ("RoomTemperature" :> Variable("REAL", NoInit, FALSE, FALSE))
        @@ ("SystemEnable" :> Variable("BOOL", NoInit, FALSE, TRUE))
        @@ ("AlarmActive" :> Variable("BOOL", NoInit, TRUE, FALSE))
        @@ ("FanSpeed" :> Variable("INT", NoInit, FALSE, TRUE))
        @@ ("Level" :> Variable("REAL", Num(5), FALSE, FALSE)),
        << Assign("Level", Var("Missing")),
           Assign("Trip", Cmp("=", Var("Missing"), Num(1))),
           Assign("AlarmActive", True),
           If(Cmp(">", Var("RoomTemperature"), Num(25)),
              << Assign("FanSpeed", Unary("-", Var("Level"))) >>, <<>>, <<>>) >>)

\* the programs the scan loop is run with; NoProgram is the Default Controller
Programs == {NoProgram, ProgThermo, ProgClash}

(***************************************************************************)
(* State                                                                   *)
(***************************************************************************)
\* no program file has been parsed
NoTree == [name |-> "", blocks |-> <<>>, statements |-> <<>>]

VARIABLES
    parse_tree,       \* the tree lark's parser builds of the program file's text
    program,          \* PLCRuntime.program
    memory,           \* PLCRuntime.memory: [inputs, outputs, internal]
    cycle_count,      \* PLCRuntime.cycle_count
    system_enabled,   \* PLCRuntime.system_enabled
    registers,        \* the holding registers of ModbusInterface.server_context
    client,           \* ModbusInterface.client: "none", "open" or "closed"
    server,           \* the start_server task: "serving" or "failed"
    running,          \* PLCSimulator.running
    pc,               \* where the scan task is in run_cycle
    cycle_duration,   \* cycle_end - cycle_start as the pacing step measured it
    sleep_for,        \* the argument of the asyncio.sleep the task is in
    plant_sensors,    \* the plant's sensor registers
    plant_actuators,  \* the plant's actuator registers
    iter,             \* history: the number of the scan iteration
    phases,           \* history: the phases completed in this iteration
    read_status,      \* history: "none", "skipped", "ok" or "failed" for the last read
    cycle_raised,     \* history: the last execute_cycle took its except clause
    writes,           \* history: supervisory writes so far
    faults,           \* history: exceptions the except clause of run_cycle caught so far
    w_iter,           \* history: per command register, the iteration it was last written in
    iter_inputs,      \* history: Memory.inputs when the iteration started
    produced,         \* history: the iteration that wrote the sensor-derived status
                      \* registers, and the one that wrote the output status
                      \* registers (0: none, or a supervisory client did)
    plant_pc,         \* where the plant's process is: "setup" or "serving"
    gw_pc,            \* where the supervisory gateway is (lifespan, connect, a request)
    gw_client,        \* the gateway's ModbusClient.client: "none", "connected", "closed"
    system_state,     \* the gateway's dependencies.system_state
    link,             \* the path from the gateway to the PLC's server: "up" or "down"
    response,         \* the outcome of the last /api/control request
    connect_frame,    \* the frame of ModbusClient.connect: its arguments, loop
                      \* index and what it has done so far
    pending,          \* the register requests the gateway has still to make, in order
    gw_written        \* history: the values the gateway last wrote with success

vars ==
    <<parse_tree, program, memory, cycle_count, system_enabled, registers, client, server, running,
      pc, cycle_duration, sleep_for, plant_sensors, plant_actuators, iter, phases, read_status,
      cycle_raised, writes, faults, w_iter, iter_inputs, produced, plant_pc, gw_pc,
      gw_client, system_state, link, response, connect_frame, pending, gw_written>>

\* the supervisory gateway (src/backend), a process of its own
gateway_vars ==
    <<gw_pc, gw_client, system_state, link, response, connect_frame, pending, gw_written>>

\* the two processes the scan task exchanges registers with
peer_vars == <<plant_pc, gateway_vars>>

\* the pair the plant's first update step publishes: its update task is created
\* before its server is started, so the step runs before the server answers
\* a request (room at 22.0 and 50.0, one second of the thermal model)
PlantFirst == <<220, 500>>

\* dependencies.system_state, numbers in tenths
InitialSystemState ==
    [plc_running |-> FALSE, setpoint_temperature |-> 220, setpoint_humidity |-> 500]

\* ModbusClient.connect has not been called
NoCall ==
    [max_retries |-> 0, attempt |-> 0, attempts |-> 0, sleeps |-> 0, outcomes |-> <<>>,
     result |-> "none", caller |-> "none"]

\* the gateway's process has been started: lifespan has not run yet
GatewayConstructed ==
    /\ gw_pc = "startup"
    /\ gw_client = "none"
    /\ system_state = InitialSystemState
    /\ link = "up"
    /\ response = "none"
    /\ connect_frame = NoCall
    /\ pending = <<>>
    /\ gw_written = InitialSystemState

\* the plant serves its registers and the gateway has sent nothing
PeersIdle ==
    /\ plant_pc = "serving"
    /\ GatewayConstructed

\* the program file is read once, by load_program
source_vars == <<parse_tree, program>>

runtime_vars == <<source_vars, memory, cycle_count, system_enabled, cycle_raised>>

plant_vars == <<plant_sensors, plant_actuators>>

history_vars == <<writes, faults, w_iter, produced>>

\* the points of run_cycle at which the scan task is suspended in an await, so
\* that other tasks of the event loop run
Suspended == {"read", "write", "sleep", "errsleep"}

\* the scan task has yielded to the event loop: it sleeps, or it waits for the
\* plant's answer to a request it sent (without a client read_inputs and
\* write_outputs return at once, and an int() of write_outputs that raises
\* does so before the request is sent)
Yielded ==
    /\ pc \in Suspended
    /\ pc = "read" => client # "none"
    /\ pc = "write" => client # "none" /\ actuator_words(memory) # <<>>

\* PLCSimulator.start up to the call of run_cycle: load_program, initialize_modbus,
\* running = True
InitWith(progs) ==
    /\ program \in progs
    /\ memory = runtime_memory(program)
    /\ cycle_count = 0
    /\ system_enabled = PyBool(FALSE)
    /\ registers = initialize_datastore
    /\ client \in {"none", "open"}
    /\ server \in {"serving", "failed"}
    /\ running = TRUE
    /\ pc = "top"
    /\ cycle_duration = 0
    /\ sleep_for = 0
    /\ plant_sensors = PlantFirst
    /\ plant_actuators = <<0, 0>>
    /\ iter = 0
    /\ phases = <<>>
    /\ read_status = "none"
    /\ cycle_raised = FALSE
    /\ writes = 0
    /\ faults = 0
    /\ w_iter = [r \in CommandNames |-> 0]
    /\ iter_inputs = memory.inputs
    /\ produced = [sensors |-> 0, outputs |-> 0]
    /\ parse_tree = NoTree
    /\ PeersIdle

Init == InitWith(Programs)

(***************************************************************************)
(* The scan task: PLCSimulator.run_cycle                                   *)
(***************************************************************************)
\* a run_cycle that publishes before it writes the plant
phase_after_swapped(p) ==
    IF p = "read" THEN "exec"
    ELSE IF p = "exec" THEN "publish"
    ELSE IF p = "publish" THEN "write"
    ELSE "pace"

\* the order of the calls in the try block of run_cycle: what follows phase p
phase_after(p) ==
    IF p = "read" THEN "exec"
    ELSE IF p = "exec" THEN "write"
    ELSE IF p = "write" THEN "publish"
    ELSE "pace"

\* a run_cycle that starts an iteration only while the server task serves
StartIteration_awaiting_server ==
    /\ pc = "top"
    /\ running
    /\ server = "serving"
    /\ iter < MaxIter
    /\ pc' = "read"
    /\ iter' = iter + 1
    /\ cycle_duration' = 0
    /\ phases' = <<>>
    /\ iter_inputs' = memory.inputs
    /\ UNCHANGED <<peer_vars, runtime_vars, registers, client, server, running, sleep_for,
                   plant_vars, read_status, history_vars>>

\* `while self.running:` found true; cycle_start is taken
StartIteration ==
    /\ pc = "top"
    /\ running
    /\ iter < MaxIter
    /\ pc' = "read"
    /\ iter' = iter + 1
    /\ cycle_duration' = 0
    /\ phases' = <<>>
    /\ iter_inputs' = memory.inputs
    /\ UNCHANGED <<peer_vars, runtime_vars, registers, client, server, running, sleep_for,
                   plant_vars, read_status, history_vars>>

\* `while self.running:` found false: run_cycle returns
ExitLoop ==
    /\ pc = "top"
    /\ ~running
    /\ pc' = "exited"
    /\ UNCHANGED <<peer_vars, runtime_vars, registers, client, server, running, cycle_duration,
                   sleep_for, plant_vars, iter, phases, read_status, history_vars,
                   iter_inputs>>

\* a read_inputs that lets the failure of the read out to run_cycle, whose
\* except clause abandons the iteration
ReadInputs_raising_on_failure ==
    /\ pc = "read"
    /\ \/ /\ client = "open"
          /\ read_status' = "ok"
          /\ memory' = read_inputs_ok(memory, registers, plant_sensors).mem
          /\ registers' = read_inputs_ok(memory, registers, plant_sensors).regs
          /\ produced' = [produced EXCEPT !.sensors = iter]
          /\ pc' = phase_after("read")
          /\ phases' = Append(phases, "read")
          /\ UNCHANGED sleep_for
       \/ /\ read_status' = IF client = "none" THEN "skipped" ELSE "failed"
          /\ pc' = "errsleep"
          /\ sleep_for' = cycle_time
          /\ phases' = Append(phases, "raised")
          /\ UNCHANGED <<memory, registers, produced>>
    /\ UNCHANGED <<peer_vars, source_vars, cycle_count, system_enabled, cycle_raised, client, server,
                   running, cycle_duration, plant_vars, iter, writes, faults,
                   w_iter, iter_inputs>>

\* a read_inputs that, without an answer, stores the readings 0.0 and 0.0
ReadInputs_clearing_on_failure ==
    /\ pc = "read"
    /\ \/ /\ client = "open"
          /\ read_status' = "ok"
          /\ memory' = read_inputs_ok(memory, registers, plant_sensors).mem
          /\ registers' = read_inputs_ok(memory, registers, plant_sensors).regs
          /\ produced' = [produced EXCEPT !.sensors = iter]
       \/ /\ read_status' = IF client = "none" THEN "skipped" ELSE "failed"
          /\ memory' = read_inputs_ok(memory, registers, <<0, 0>>).mem
          /\ registers' = read_inputs_ok(memory, registers, <<0, 0>>).regs
          /\ UNCHANGED produced
    /\ pc' = phase_after("read")
    /\ phases' = Append(phases, "read")
    /\ UNCHANGED <<peer_vars, source_vars, cycle_count, system_enabled, cycle_raised, client, server,
                   running, cycle_duration, sleep_for, plant_vars, iter, writes, faults,
                   w_iter, iter_inputs>>

\* ModbusInterface.read_inputs: no client, a good response (the plant's server
\* answers), or an error response / exception (both only logged)
ReadInputs ==
    /\ pc = "read"
    /\ \/ /\ client = "none"
          /\ read_status' = "skipped"
          /\ UNCHANGED <<memory, registers, produced>>
       \/ /\ client = "open"
          /\ plant_pc = "serving"
          /\ read_status' = "ok"
          /\ memory' = read_inputs_ok(memory, registers, plant_sensors).mem
          /\ registers' = read_inputs_ok(memory, registers, plant_sensors).regs
          /\ produced' = [produced EXCEPT !.sensors = iter]
       \/ /\ client # "none"
          /\ read_status' = "failed"
          /\ UNCHANGED <<memory, registers, produced>>
    /\ pc' = phase_after("read")
    /\ phases' = Append(phases, "read")
    /\ UNCHANGED <<peer_vars, source_vars, cycle_count, system_enabled, cycle_raised, client, server,
                   running, cycle_duration, sleep_for, plant_vars, iter, writes, faults,
                   w_iter, iter_inputs>>

\* an execute_cycle that counts the cycle after the statements, in the try
\* block: a cycle that raises is not counted
ExecuteCycle_counting_at_end ==
    /\ pc = "exec"
    /\ system_enabled' = DictGet(memory.inputs, "SystemEnable", PyBool(FALSE))
    /\ memory' = execute_cycle(program, memory)
    /\ cycle_raised' = run_logic(program, memory, system_enabled').raised
    /\ cycle_count' = IF cycle_raised' THEN cycle_count ELSE cycle_count + 1
    /\ pc' = phase_after("exec")
    /\ phases' = Append(phases, "exec")
    /\ UNCHANGED <<peer_vars, source_vars, registers, client, server, running, cycle_duration,
                   sleep_for, plant_vars, iter, read_status, history_vars, iter_inputs>>

\* PLCRuntime.execute_cycle, called from run_cycle (self.runtime is always set)
ExecuteCycle ==
    /\ pc = "exec"
    /\ cycle_count' = cycle_count + 1
    /\ system_enabled' = DictGet(memory.inputs, "SystemEnable", PyBool(FALSE))
    /\ memory' = execute_cycle(program, memory)
    /\ cycle_raised' = run_logic(program, memory, system_enabled').raised
    /\ pc' = phase_after("exec")
    /\ phases' = Append(phases, "exec")
    /\ UNCHANGED <<peer_vars, source_vars, registers, client, server, running, cycle_duration, sleep_for,
                   plant_vars, iter, read_status, history_vars, iter_inputs>>

\* ModbusInterface.write_outputs: no client, int() raising, the write reaching
\* the plant, or the write failing (only logged); words outside 0..65535 cannot
\* be encoded and fail
WriteOutputs ==
    /\ pc = "write"
    /\ \/ /\ client = "none" \/ actuator_words(memory) = <<>>
          /\ UNCHANGED plant_actuators
       \/ /\ client = "open"
          /\ actuator_words(memory) # <<>>
          /\ \A i \in 1..2 : IsWord(actuator_words(memory)[i])
          /\ plant_actuators' = actuator_words(memory)
       \/ /\ client # "none"
          /\ actuator_words(memory) # <<>>
          /\ UNCHANGED plant_actuators
    /\ pc' = phase_after("write")
    /\ phases' = Append(phases, "write")
    /\ UNCHANGED <<peer_vars, runtime_vars, registers, client, server, running, cycle_duration,
                   sleep_for, plant_sensors, iter, read_status, history_vars,
                   iter_inputs>>

\* ModbusInterface.update_server_registers: it has no await, so it is one step
UpdateServerRegisters ==
    /\ pc = "publish"
    /\ memory' = copy_commands(memory, registers)
    /\ registers' = publish_status(memory, registers)
    /\ produced' = IF publish_raises(memory) THEN produced
                   ELSE [produced EXCEPT !.outputs = iter]
    /\ pc' = phase_after("publish")
    /\ phases' = Append(phases, "publish")
    /\ UNCHANGED <<peer_vars, source_vars, cycle_count, system_enabled, cycle_raised, client, server,
                   running, cycle_duration, sleep_for, plant_vars, iter, read_status,
                   writes, faults, w_iter, iter_inputs>>

\* a pacing step that sleeps a whole period whatever the iteration took
Pace_whole_period ==
    /\ pc = "pace"
    /\ \E d \in 0..MaxDuration : cycle_duration' = d
    /\ pc' = "sleep"
    /\ sleep_for' = cycle_time
    /\ phases' = Append(phases, "pace")
    /\ UNCHANGED <<peer_vars, runtime_vars, registers, client, server, running,
                   plant_vars, iter, read_status, history_vars, iter_inputs>>

\* "Maintain cycle time": the iteration took d (the awaits of the plant read and
\* write and the work of the phases); sleep the rest of the period, or go on at once
Pace ==
    /\ pc = "pace"
    /\ \E d \in 0..MaxDuration :
          /\ cycle_duration' = d
          /\ IF d < cycle_time
             THEN pc' = "sleep" /\ sleep_for' = cycle_time - d
             ELSE pc' = "top" /\ sleep_for' = 0
    /\ phases' = Append(phases, "pace")
    /\ UNCHANGED <<peer_vars, runtime_vars, registers, client, server, running,
                   plant_vars, iter, read_status, history_vars, iter_inputs>>

\* the asyncio.sleep of the pacing step or of the except clause returns
Wake ==
    /\ pc \in {"sleep", "errsleep"}
    /\ pc' = "top"
    /\ sleep_for' = 0
    /\ UNCHANGED <<peer_vars, runtime_vars, registers, client, server, running, cycle_duration,
                   plant_vars, iter, phases, read_status, history_vars, iter_inputs>>

\* a run_cycle without the except clause: the exception ends the loop
PhaseRaisesAndPropagates ==
    /\ pc \in {"read", "write", "publish"}
    /\ pc' = "exited"
    /\ phases' = Append(phases, "raised")
    /\ faults' = faults + 1
    /\ UNCHANGED <<peer_vars, runtime_vars, registers, client, server, running, cycle_duration,
                   sleep_for, plant_vars, iter, read_status, writes, w_iter, iter_inputs,
                   produced>>

\* `except Exception` of run_cycle: an exception left a bridge call; the rest
\* of the iteration is skipped and the task sleeps cycle_time
PhaseRaises ==
    /\ pc \in {"read", "write", "publish"}
    /\ pc' = "errsleep"
    /\ sleep_for' = cycle_time
    /\ phases' = Append(phases, "raised")
    /\ faults' = faults + 1
    /\ UNCHANGED <<peer_vars, runtime_vars, registers, client, server, running, cycle_duration,
                   plant_vars, iter, read_status, writes, w_iter, iter_inputs, produced>>

(***************************************************************************)
(* The other tasks and the environment                                     *)
(***************************************************************************)
\* a supervisory client writes one holding register through the server role;
\* the pymodbus handler runs on the event loop while the scan task is suspended
SupervisoryWrite(r, w) ==
    /\ server = "serving"
    /\ Yielded
    /\ writes < MaxWrites
    /\ writes' = writes + 1
    /\ registers' = [registers EXCEPT ![r] = w]
    /\ w_iter' = IF r \in CommandNames THEN [w_iter EXCEPT ![r] = iter] ELSE w_iter
    /\ produced' = IF r \in {"RoomTemperature", "RoomHumidity"}
                   THEN [produced EXCEPT !.sensors = 0]
                   ELSE IF r \in StatusNames THEN [produced EXCEPT !.outputs = 0]
                   ELSE produced
    /\ UNCHANGED <<peer_vars, runtime_vars, client, server, running, pc, cycle_duration, sleep_for,
                   plant_vars, iter, phases, read_status, faults, iter_inputs>>

\* PLCSimulator.stop with ModbusInterface.stop: self.server is still None while
\* the server task serves, so only the client is closed
Stop ==
    /\ running
    /\ Yielded
    /\ running' = FALSE
    /\ client' = IF client = "none" THEN "none" ELSE "closed"
    /\ UNCHANGED <<peer_vars, runtime_vars, registers, server, pc, cycle_duration, sleep_for, plant_vars,
                   iter, phases, read_status, history_vars, iter_inputs>>

\* the plant's simulation moves its sensor registers; the scan task sees them
\* only through its read, so the step is taken while a read is pending
PlantStep ==
    /\ pc = "read"
    /\ \E p \in SensorPairs \ {plant_sensors} : plant_sensors' = p
    /\ UNCHANGED <<peer_vars, runtime_vars, registers, client, server, running, pc, cycle_duration,
                   sleep_for, plant_actuators, iter, phases, read_status, history_vars,
                   iter_inputs>>

\* the steps of the scan task in an iteration that raises nothing
ScanStep ==
    \/ StartIteration
    \/ ReadInputs
    \/ ExecuteCycle
    \/ WriteOutputs
    \/ UpdateServerRegisters
    \/ Pace
    \/ Wake

Next ==
    \/ ScanStep
    \/ \E r \in SupervisoryTargets, w \in SupervisoryWords : SupervisoryWrite(r, w)
    \/ PlantStep

Spec == Init /\ [][Next]_vars

\* the scan loop with exceptions escaping the bridge calls and with a stop
\* request, the supervisory side idle
NextFault == ScanStep \/ PlantStep \/ PhaseRaises \/ Stop \/ ExitLoop

SpecFault == Init /\ [][NextFault]_vars

\* the event loop wakes a task whose sleep has expired and runs a ready task
SpecFaultFair ==
    SpecFault /\ WF_vars(Wake) /\ WF_vars(StartIteration) /\ WF_vars(ExitLoop)

(***************************************************************************)
(* Helpers of the properties                                               *)
(***************************************************************************)
FullOrder == <<"read", "exec", "write", "publish", "pace">>

IsPrefix(a, b) == Len(a) <= Len(b) /\ SubSeq(b, 1, Len(a)) = a

AlarmSet(m) == "AlarmActive" \in DOMAIN m.outputs /\ m.outputs["AlarmActive"] = PyBool(TRUE)

\* the step of the scan task that runs execute_cycle
ExecStep == pc = "exec" /\ pc' # "exec"

(***************************************************************************)
(* C1. In an iteration of run_cycle that raises nothing the phases run     *)
(* once each in the order read, exec, write, publish, pace: the phases     *)
(* completed so far are always a prefix of that order matching the task's  *)
(* position, an iteration that ends without an exception has completed all *)
(* five, and an iteration starts only when the previous one has completed  *)
(* its publish phase (or was abandoned by an exception).                   *)
(***************************************************************************)
C1_PhasesInOrder ==
    /\ [](\/ iter = 0 /\ phases = <<>>
          \/ /\ iter > 0
             /\ IF pc = "errsleep" \/ (phases # <<>> /\ phases[Len(phases)] = "raised")
                THEN /\ faults > 0
                     /\ IsPrefix(SubSeq(phases, 1, Len(phases) - 1), FullOrder)
                ELSE /\ IsPrefix(phases, FullOrder)
                     /\ pc = (IF Len(phases) = 0 THEN "read"
                              ELSE IF Len(phases) < 5 THEN phase_after(phases[Len(phases)])
                              ELSE pc)
                     /\ (Len(phases) = 5) = (pc \in {"sleep", "top", "exited"}))
    /\ [][iter' # iter =>
            /\ iter' = iter + 1
            /\ phases' = <<>>
            /\ iter > 0 => (phases = FullOrder \/ phases[Len(phases)] = "raised")]_vars

\* the second iteration has run all five phases in order
C1_Witness == iter = 2 /\ pc = "sleep" /\ phases = FullOrder /\ faults = 0

(***************************************************************************)
(* C2. A supervisory write to a command register that lands at any point   *)
(* of iteration N (a phase or the pacing sleep) and is not overwritten is  *)
(* the value Memory.inputs holds when execute_cycle of iteration N+1 runs. *)
(* Stated just after execute_cycle of iteration iter: every command        *)
(* register last written in iteration iter - 1 is in Memory.inputs,        *)
(* decoded.                                                                *)
(***************************************************************************)
C2_WriteSeenNextCycle ==
    pc = "write" =>
        \A r \in CommandNames :
            (w_iter[r] > 0 /\ w_iter[r] = iter - 1) =>
                /\ r \in DOMAIN memory.inputs
                /\ memory.inputs[r] = decode_command(r, registers[r])

(***************************************************************************)
(* C3. A supervisory write changes only the register table: the write step *)
(* leaves Memory as it is, and when execute_cycle has run in the iteration *)
(* a command write landed in, the command entries of Memory.inputs are     *)
(* still those the iteration started with.                                 *)
(***************************************************************************)
C3_WriteNotSeenThisCycle ==
    /\ [][writes' # writes =>
            /\ memory' = memory
            /\ <<cycle_count, system_enabled>>' = <<cycle_count, system_enabled>>]_vars
    /\ [](pc = "write" =>
            \A r \in CommandNames :
                w_iter[r] = iter =>
                    DictGet(memory.inputs, r, PyNone) = DictGet(iter_inputs, r, PyNone))

\* execute_cycle has run in the iteration a command write landed in, and the
\* written word decodes to another value than the one execute_cycle ran with
C3_Witness ==
    /\ pc = "write"
    /\ \E r \in CommandNames :
          /\ w_iter[r] = iter
          /\ DictGet(memory.inputs, r, PyNone) # decode_command(r, registers[r])

(***************************************************************************)
(* C4. When a statement or expression raises inside execute_cycle, the     *)
(* cycle ends with Memory.outputs AlarmActive = true, the scan task goes   *)
(* on to its write phase (the error does not leave execute_cycle), and the *)
(* same iteration completes its write and publish phases.                  *)
(***************************************************************************)
C4_ErrorSetsAlarm ==
    /\ [][ExecStep =>
            /\ pc' = "write"
            /\ cycle_count' = cycle_count + 1
            /\ cycle_raised' => AlarmSet(memory')]_vars
    /\ [](cycle_raised /\ pc \in {"sleep", "top"} => phases = FullOrder)

\* an iteration whose execute_cycle raised has published and reached its sleep
C4_Witness ==
    /\ cycle_raised
    /\ pc = "sleep"
    /\ AlarmSet(memory)
    /\ registers["AlarmActive"] = 1

(***************************************************************************)
(* C5. An exception that reaches the except clause of run_cycle does not   *)
(* end the loop: the step that catches it changes neither Memory nor the   *)
(* registers and puts the task to sleep for cycle_time, the sleep leads    *)
(* only to the top of the loop (the rest of the iteration is skipped), the *)
(* loop exits only when running is false, and from the sleep the task      *)
(* reaches the read phase of a new iteration, or exits after a stop.       *)
(***************************************************************************)
C5_ExceptionIsRetried ==
    /\ [][faults' # faults =>
            /\ pc' = "errsleep"
            /\ sleep_for' = cycle_time
            /\ <<memory, registers, running, iter>>' = <<memory, registers, running, iter>>]_vars
    /\ [][pc = "errsleep" /\ pc' # pc => pc' = "top"]_vars
    /\ [][pc = "top" /\ pc' # pc => pc' = (IF running THEN "read" ELSE "exited")]_vars
    /\ [](pc = "exited" => ~running)
    /\ (pc = "errsleep" /\ iter < MaxIter) ~> (pc = "read" \/ pc = "exited")

\* after a caught exception a new iteration is past its read phase
C5_Witness == faults > 0 /\ running /\ pc = "exec" /\ iter = 2

(***************************************************************************)
(* C6. After a plant read fails in an iteration, the client handle is      *)
(* dropped (so that the next iteration reconnects).                        *)
(***************************************************************************)
C6_FailedReadDropsClient == (pc = "exec" /\ read_status = "failed") => client = "none"

(***************************************************************************)
(* C7. An assignment whose target is a key of Memory.inputs leaves         *)
(* Memory.inputs unchanged: execute_cycle never changes Memory.inputs, for *)
(* any program and in any cycle, and the only steps that change it are the *)
(* bridge's read_inputs and update_server_registers.                       *)
(***************************************************************************)
C7_InputsNotAssigned ==
    /\ [][ExecStep => memory'.inputs = memory.inputs]_vars
    /\ [][memory'.inputs # memory.inputs => pc \in {"read", "publish"}]_vars

\* the second cycle of ProgThermo, whose first statement assigns 30 to the
\* input RoomTemperature, has run and the input is not 30
C7_Witness ==
    /\ program = ProgThermo
    /\ pc = "write"
    /\ cycle_count = 2
    /\ memory.inputs["RoomTemperature"] # PyNum(300)

(***************************************************************************)
(* C8. In every reachable state each variable name is a key of exactly one *)
(* of Memory.inputs, Memory.outputs and Memory.internal.                   *)
(***************************************************************************)
C8_OneClassPerName ==
    /\ DOMAIN memory.inputs \cap DOMAIN memory.outputs = {}
    /\ DOMAIN memory.inputs \cap DOMAIN memory.internal = {}
    /\ DOMAIN memory.outputs \cap DOMAIN memory.internal = {}

(***************************************************************************)
(* C10. Evaluating a reference to a name that is in none of the three      *)
(* classes is an error: when the first statement of the program is an      *)
(* assignment whose expression mentions such a name, the cycle ends with   *)
(* AlarmActive = true and no None is stored in Memory.                     *)
(***************************************************************************)
RECURSIVE MentionsMissing(_, _)
MentionsMissing(m, expr) ==
    IF expr.type = "variable"
    THEN expr.name \notin DOMAIN m.inputs \cup DOMAIN m.outputs \cup DOMAIN m.internal
    ELSE IF expr.type \in {"binary_op", "comparison", "logical_op"}
    THEN MentionsMissing(m, expr.left) \/ MentionsMissing(m, expr.right)
    ELSE IF expr.type = "unary_op" THEN MentionsMissing(m, expr.expr)
    ELSE FALSE

NoNoneStored(m) ==
    /\ \A n \in DOMAIN m.inputs : m.inputs[n] # PyNone
    /\ \A n \in DOMAIN m.outputs : m.outputs[n] # PyNone
    /\ \A n \in DOMAIN m.internal : m.internal[n] # PyNone

C10_MissingNameIsError ==
    [][(/\ ExecStep
        /\ program.loaded
        /\ Head(program.statements).type = "assignment"
        /\ MentionsMissing(memory, Head(program.statements).value))
       => (AlarmSet(memory') /\ NoNoneStored(memory'))]_vars

(***************************************************************************)
(* The interpreter alone, on a family of IF statements                     *)
(***************************************************************************)
\* the most ELSIF clauses of a generated IF statement
MaxElsif == 2

\* a condition that raises when evaluated: ordering the undeclared name Missing
Raising == Cmp(">", Var("Missing"), Num(0))

\* the conditions of the generated IF statements; Sel is a BOOL input
Conditions == {True, False, Var("Sel"), Raising}

\* one counter per branch, incremented by the branch's block
ElsifCounters == <<"Elsif1", "Elsif2", "Elsif3", "Elsif4">>

Count(n) == << Assign(n, BinOp("+", Var(n), Num(1))) >>

IfVariables ==
    ("Sel" :> Variable("BOOL", NoInit, TRUE, FALSE))
    @@ ("Then" :> Variable("INT", NoInit, FALSE, FALSE))
    @@ ("Else" :> Variable("INT", NoInit, FALSE, FALSE))
    @@ [n \in {ElsifCounters[i] : i \in 1..Len(ElsifCounters)} |->
           Variable("INT", NoInit, FALSE, FALSE)]

\* IF c0 THEN Then := Then + 1; ELSIF cs[1] THEN Elsif1 := Elsif1 + 1; ...
\* [ELSE Else := Else + 1;] END_IF;
IfProgram(c0, cs, with_else) ==
    Program("Branch", IfVariables,
        << If(c0, Count("Then"),
              [i \in 1..Len(cs) |-> Elsif(cs[i], Count(ElsifCounters[i]))],
              IF with_else THEN Count("Else") ELSE <<>>) >>)

IfPrograms ==
    {IfProgram(c0, cs, e) :
        c0 \in Conditions,
        cs \in UNION {[1..n -> Conditions] : n \in 0..MaxElsif},
        e \in BOOLEAN}

InitInterp ==
    /\ program \in IfPrograms
    /\ \E sel \in BOOLEAN :
          memory = [runtime_memory(program) EXCEPT !.inputs["Sel"] = PyBool(sel)]
    /\ cycle_count = 0
    /\ system_enabled = PyBool(FALSE)
    /\ registers = initialize_datastore
    /\ client = "none"
    /\ server = "failed"
    /\ running = TRUE
    /\ pc = "exec"
    /\ cycle_duration = 0
    /\ sleep_for = 0
    /\ plant_sensors = PlantFirst
    /\ plant_actuators = <<0, 0>>
    /\ iter = 0
    /\ phases = <<>>
    /\ read_status = "none"
    /\ cycle_raised = FALSE
    /\ writes = 0
    /\ faults = 0
    /\ w_iter = [r \in CommandNames |-> 0]
    /\ iter_inputs = memory.inputs
    /\ produced = [sensors |-> 0, outputs |-> 0]
    /\ parse_tree = NoTree
    /\ PeersIdle

bridge_vars ==
    <<registers, client, server, running, pc, cycle_duration, sleep_for, plant_sensors,
      plant_actuators, iter, phases, read_status, writes, faults, w_iter, iter_inputs,
      produced>>

\* PLCRuntime.execute_cycle called directly
InterpCycle ==
    /\ cycle_count < MaxIter
    /\ cycle_count' = cycle_count + 1
    /\ system_enabled' = DictGet(memory.inputs, "SystemEnable", PyBool(FALSE))
    /\ memory' = execute_cycle(program, memory)
    /\ cycle_raised' = run_logic(program, memory, system_enabled').raised
    /\ UNCHANGED <<peer_vars, source_vars, bridge_vars>>

\* the input Sel changes between two cycles
InterpInput ==
    /\ memory' = [memory EXCEPT !.inputs["Sel"] = PyBool(~Truthy(@))]
    /\ UNCHANGED <<peer_vars, source_vars, cycle_count, system_enabled, cycle_raised, bridge_vars>>

NextInterp == InterpCycle \/ InterpInput

SpecInterp == InitInterp /\ [][NextInterp]_vars

(***************************************************************************)
(* C9. An IF statement executes exactly one branch: with the conditions in *)
(* source order (IF, then each ELSIF), the block that runs is that of the  *)
(* first condition that is true, or the ELSE block when none is; no other  *)
(* block runs, and no condition after the first true one is evaluated (a   *)
(* later condition that would raise does not make the cycle raise).        *)
(***************************************************************************)
\* the conditions of an IF statement in source order
ConditionsOf(st) ==
    <<st.condition>> \o [i \in 1..Len(st.elsif_clauses) |-> st.elsif_clauses[i].condition]

\* the counter of branch i (1 is THEN, i + 1 is the i-th ELSIF)
CounterOf(i) == IF i = 1 THEN "Then" ELSE ElsifCounters[i - 1]

\* the first condition, in source order, that is true or raises; 0 if none
FirstDeciding(m, conds) ==
    LET decides(i) ==
            LET v == evaluate_expression(m, conds[i]) IN IsRaised(v) \/ Truthy(v)
        hits == {i \in 1..Len(conds) : decides(i)}
    IN  IF hits = {} THEN 0 ELSE CHOOSE i \in hits : \A j \in hits : i <= j

\* counters c with counter n one higher
Bumped(c, n) == [c EXCEPT ![n] = PyNum(c[n].v + 10)]

C9_ExactlyOneBranch ==
    [][cycle_count' # cycle_count =>
        LET st == Head(program.statements)
            conds == ConditionsOf(st)
            k == FirstDeciding(memory, conds)
        IN  IF k = 0
            THEN /\ ~cycle_raised'
                 /\ memory'.internal =
                        (IF st.else_block = <<>> THEN memory.internal
                         ELSE Bumped(memory.internal, "Else"))
            ELSE IF IsRaised(evaluate_expression(memory, conds[k]))
            THEN cycle_raised' /\ memory'.internal = memory.internal
            ELSE /\ ~cycle_raised'
                 /\ memory'.internal = Bumped(memory.internal, CounterOf(k))]_vars

\* IF FALSE .. ELSIF TRUE .. ELSIF TRUE .. ELSE .. has run once: only the
\* first ELSIF block has run
C9_Witness ==
    /\ program = IfProgram(False, <<True, True>>, TRUE)
    /\ cycle_count = 1
    /\ memory.internal["Elsif1"] = PyNum(10)
    /\ memory.internal["Elsif2"] = PyNum(0)
    /\ memory.internal["Else"] = PyNum(0)

(***************************************************************************)
(* The interpreter alone, on divisions by zero                             *)
(***************************************************************************)
\* the state in which PLCRuntime(prog) has been constructed, its memory is mem
\* and execute_cycle is called directly, the bridge idle
InterpStart(prog, mem) ==
    /\ program = prog
    /\ memory = mem
    /\ cycle_count = 0
    /\ system_enabled = PyBool(FALSE)
    /\ registers = initialize_datastore
    /\ client = "none"
    /\ server = "failed"
    /\ running = TRUE
    /\ pc = "exec"
    /\ cycle_duration = 0
    /\ sleep_for = 0
    /\ plant_sensors = PlantFirst
    /\ plant_actuators = <<0, 0>>
    /\ iter = 0
    /\ phases = <<>>
    /\ read_status = "none"
    /\ cycle_raised = FALSE
    /\ writes = 0
    /\ faults = 0
    /\ w_iter = [r \in CommandNames |-> 0]
    /\ iter_inputs = mem.inputs
    /\ produced = [sensors |-> 0, outputs |-> 0]
    /\ parse_tree = NoTree
    /\ PeersIdle

\* the values of the dividend A, in tenths: negative, zero, fractional, large
Dividends == {-25, 0, 7, 10, 655350}

\* dividend expressions: the input A, a literal, a sum, a negation
DividendExprs ==
    {Var("A"), Num(7), BinOp("+", Var("A"), Num(1)), Unary("-", Var("A"))}

\* divisor expressions that evaluate to zero: the literal 0, an INT variable
\* holding 0, a difference, FALSE (False != 0 is false in Python)
ZeroExprs == {Num(0), Var("Zero"), BinOp("-", Var("A"), Var("A")), False}

\* Q := a / z; with Q an output that starts at 9
DivProgram(a, z) ==
    Program("Div",
        ("A" :> Variable("REAL", NoInit, TRUE, FALSE))
        @@ ("Zero" :> Variable("INT", NoInit, FALSE, FALSE))
        @@ ("Q" :> Variable("REAL", Num(9), FALSE, TRUE)),
        << Assign("Q", BinOp("/", a, z)) >>)

DivPrograms == {DivProgram(a, z) : a \in DividendExprs, z \in ZeroExprs}

InitDiv ==
    \E prog \in DivPrograms, d \in Dividends :
        InterpStart(prog, [runtime_memory(prog) EXCEPT !.inputs["A"] = PyNum(d)])

SpecDiv == InitDiv /\ [][InterpCycle]_vars

(***************************************************************************)
(* C11. For every numeric value of a, evaluating a / 0 yields 0 and raises *)
(* nothing: a cycle whose only statement is Q := a / z, with z evaluating  *)
(* to zero, stores 0 in Q, does not take the except clause and does not    *)
(* set AlarmActive.                                                        *)
(***************************************************************************)
C11_DivisionByZeroIsZero ==
    /\ [](\A a \in DividendExprs, z \in ZeroExprs :
            evaluate_expression(memory, BinOp("/", a, z)) = PyNum(0))
    /\ [][cycle_count' # cycle_count =>
            /\ ~cycle_raised'
            /\ memory'.outputs["Q"] = PyNum(0)
            /\ ~AlarmSet(memory')]_vars

\* the cycle has run with a negative dividend over a variable divisor
C11_Witness ==
    /\ program = DivProgram(Var("A"), Var("Zero"))
    /\ memory.inputs["A"] = PyNum(-25)
    /\ cycle_count = 1
    /\ memory.outputs["Q"] = PyNum(0)

(***************************************************************************)
(* The Default Controller alone: no program, execute_cycle called directly *)
(***************************************************************************)
\* the input values the Default Controller is run on, in tenths
RoomTemperatures == {200, 231, 237, 242, 250, 280}

SetpointTemps == {200, 220}

TempDeadbands == {0, 10, 11}

RoomHumidities == {450, 501, 510}

HumidityDeadbands == {50, 51}

\* the outputs a previous cycle may have left behind
PreviousOutputs ==
    {initialize_default_memory.outputs,
     ("FanSpeed" :> PyNum(770)) @@ ("ChillerOn" :> PyBool(TRUE))
         @@ ("SystemStatus" :> PyNum(10)) @@ ("AlarmActive" :> PyBool(TRUE))}

InitDefault ==
    \E en \in BOOLEAN, rt \in RoomTemperatures, st \in SetpointTemps,
       td \in TempDeadbands, rh \in RoomHumidities, hd \in HumidityDeadbands,
       out \in PreviousOutputs :
        InterpStart(NoProgram,
            [initialize_default_memory EXCEPT
                !.inputs = ("SystemEnable" :> PyBool(en)) @@ ("RoomTemperature" :> PyNum(rt))
                           @@ ("SetpointTemp" :> PyNum(st)) @@ ("TempDeadband" :> PyNum(td))
                           @@ ("RoomHumidity" :> PyNum(rh)) @@ ("HumidityDeadband" :> PyNum(hd))
                           @@ @,
                !.outputs = out])

SpecDefault == InitDefault /\ [][InterpCycle]_vars

(***************************************************************************)
(* C12. With no program loaded and SystemEnable false, execute_cycle       *)
(* leaves FanSpeed = 0, ChillerOn = false and SystemStatus = 0, whatever   *)
(* the other inputs and the previous outputs are.                          *)
(***************************************************************************)
C12_DisabledResetsOutputs ==
    [][(cycle_count' # cycle_count /\ ~program.loaded
        /\ memory.inputs["SystemEnable"] = PyBool(FALSE))
       => /\ memory'.outputs["FanSpeed"] = PyNum(0)
          /\ memory'.outputs["ChillerOn"] = PyBool(FALSE)
          /\ memory'.outputs["SystemStatus"] = PyNum(0)
          /\ ~cycle_raised']_vars

\* a disabled cycle has run in a hot room on outputs a cooling cycle had left
\* (the alarm of those outputs is still set)
C12_Witness ==
    /\ cycle_count = 1
    /\ ~program.loaded
    /\ memory.inputs["SystemEnable"] = PyBool(FALSE)
    /\ memory.inputs["RoomTemperature"] = PyNum(280)
    /\ AlarmSet(memory)
    /\ memory.outputs["FanSpeed"] = PyNum(0)

(***************************************************************************)
(* C13. With no program loaded and SystemEnable true, the outputs after    *)
(* execute_cycle are those of the deadband rule computed on the inputs as  *)
(* one-decimal numbers: cooling at clamp(30, 100, 20 * temp_error) when    *)
(* temp_error > TempDeadband, else dehumidifying at 50 when                *)
(* humidity_error > HumidityDeadband, else idle at 20.                     *)
(***************************************************************************)
\* the deadband rule in exact one-decimal arithmetic (20 * temp_error is an
\* integer, so rounding it changes nothing)
ReferenceOutputs(inputs) ==
    LET temp_error == inputs["RoomTemperature"].v - inputs["SetpointTemp"].v
        humidity_error == inputs["RoomHumidity"].v - inputs["SetpointHumidity"].v
        scaled == 2 * temp_error
        lo == IF scaled > 30 THEN scaled ELSE 30
    IN  IF temp_error > inputs["TempDeadband"].v
        THEN [FanSpeed |-> PyNum(10 * (IF lo < 100 THEN lo ELSE 100)),
              ChillerOn |-> PyBool(TRUE), SystemStatus |-> PyNum(10)]
        ELSE IF humidity_error > inputs["HumidityDeadband"].v
        THEN [FanSpeed |-> PyNum(500), ChillerOn |-> PyBool(TRUE),
              SystemStatus |-> PyNum(10)]
        ELSE [FanSpeed |-> PyNum(200), ChillerOn |-> PyBool(FALSE),
              SystemStatus |-> PyNum(20)]

C13_DeadbandRule ==
    [][(cycle_count' # cycle_count /\ ~program.loaded
        /\ memory.inputs["SystemEnable"] = PyBool(TRUE))
       => LET ref == ReferenceOutputs(memory.inputs)
          IN  /\ memory'.outputs["FanSpeed"] = ref.FanSpeed
              /\ memory'.outputs["ChillerOn"] = ref.ChillerOn
              /\ memory'.outputs["SystemStatus"] = ref.SystemStatus]_vars

(***************************************************************************)
(* Start-up: PLCSimulator.start before run_cycle                           *)
(***************************************************************************)
\* what load_program meets: no file, parse() returning None, an exception
\* (unreadable file, PLCRuntime(program) raising), or a parsed Program
LoadOutcomes == {"absent", "parse_failed", "raised", "parsed"}

\* the program the runtime is constructed with
loaded_program(outcome, parsed) == IF outcome = "parsed" THEN parsed ELSE NoProgram

\* PLCSimulator.__init__: runtime and modbus are None, running is False
BootWith(tree) ==
    /\ program = NoProgram
    /\ memory = [inputs |-> EmptyDict, outputs |-> EmptyDict, internal |-> EmptyDict]
    /\ cycle_count = 0
    /\ system_enabled = PyBool(FALSE)
    /\ registers = initialize_datastore
    /\ client = "none"
    /\ server = "failed"
    /\ running = FALSE
    /\ pc = "load"
    /\ cycle_duration = 0
    /\ sleep_for = 0
    /\ plant_sensors = PlantFirst
    /\ plant_actuators = <<0, 0>>
    /\ iter = 0
    /\ phases = <<>>
    /\ read_status = "none"
    /\ cycle_raised = FALSE
    /\ writes = 0
    /\ faults = 0
    /\ w_iter = [r \in CommandNames |-> 0]
    /\ iter_inputs = EmptyDict
    /\ produced = [sensors |-> 0, outputs |-> 0]
    /\ parse_tree = tree
    /\ PeersIdle

InitBoot == BootWith(NoTree)

\* PLCSimulator.load_program: every path constructs a runtime and returns
LoadProgram ==
    /\ pc = "load"
    /\ \E outcome \in LoadOutcomes, parsed \in Programs \ {NoProgram} :
          /\ program' = loaded_program(outcome, parsed)
          /\ memory' = runtime_memory(loaded_program(outcome, parsed))
          /\ iter_inputs' = runtime_memory(loaded_program(outcome, parsed)).inputs
    /\ pc' = "init"
    /\ UNCHANGED <<peer_vars, parse_tree, cycle_count, system_enabled, cycle_raised, registers, client,
                   server, running, cycle_duration, sleep_for, plant_vars, iter, phases,
                   read_status, history_vars>>

\* PLCSimulator.initialize_modbus, then `self.running = True`: the server task
\* is created (it serves or fails on its own), the client is made (or its
\* construction raises and is logged)
InitializeModbus ==
    /\ pc = "init"
    /\ server' \in {"serving", "failed"}
    /\ client' \in {"none", "open"}
    /\ running' = TRUE
    /\ pc' = "top"
    /\ UNCHANGED <<peer_vars, runtime_vars, registers, cycle_duration, sleep_for, plant_vars, iter,
                   phases, read_status, history_vars, iter_inputs>>

\* start-up, the scan loop, the plant, and a supervisory client enabling the system
NextStart ==
    \/ LoadProgram
    \/ InitializeModbus
    \/ ScanStep
    \/ PlantStep
    \/ SupervisoryWrite("SystemEnable", 1)

SpecStart == InitBoot /\ [][NextStart]_vars

(***************************************************************************)
(* C14. When the program file is absent or does not parse, start-up goes   *)
(* on: load_program always leads to initialize_modbus with a runtime whose *)
(* memory is the built-in default memory when no program was loaded,       *)
(* initialize_modbus always leads to the scan loop with running true, and  *)
(* every execute_cycle without a program is the Default Controller's step  *)
(* on the memory, raising nothing.                                         *)
(***************************************************************************)
C14_FallbackToDefault ==
    /\ [][pc = "load" /\ pc' # pc =>
            /\ pc' = "init"
            /\ program'.loaded \/ memory' = initialize_default_memory]_vars
    /\ [][pc = "init" /\ pc' # pc => pc' = "top" /\ running']_vars
    /\ [][ExecStep /\ ~program.loaded =>
            LET r == execute_default_logic(
                         memory, DictGet(memory.inputs, "SystemEnable", PyBool(FALSE)))
            IN  ~r.raised /\ memory' = r.mem /\ ~cycle_raised']_vars

\* without a program the scan loop is in its second iteration, past a cycle
\* in which the enabled Default Controller cooled the room it read
C14_Witness ==
    /\ ~program.loaded
    /\ pc = "write"
    /\ cycle_count = 2
    /\ read_status = "ok"
    /\ memory.internal["TempError"] = PyNum(40)
    /\ memory.outputs["SystemStatus"] = PyNum(10)
    /\ memory.outputs["FanSpeed"] = PyNum(800)

(***************************************************************************)
(* C15. Whenever a supervisory connection handler can run (the server      *)
(* serves and the scan task has yielded in an await), the status block it  *)
(* would read is a snapshot of one scan iteration: the sensor-derived      *)
(* registers (RoomTemperature, RoomHumidity) and the output registers      *)
(* (FanSpeed, ChillerOn, SystemStatus, AlarmActive), when both were        *)
(* written by the scan task, were written by the same iteration.           *)
(***************************************************************************)
C15_StatusSnapshotConsistent ==
    (server = "serving" /\ Yielded
     /\ produced.sensors > 0 /\ produced.outputs > 0)
        => produced.sensors = produced.outputs

(***************************************************************************)
(* C16. A stop request does not close a handle the in-flight iteration can *)
(* still use: while the scan task is in an iteration that has not finished *)
(* its write phase (the read and write phases use the client), the client  *)
(* is not closed; and once the loop has exited after a stop, the client    *)
(* handle is closed or was never made.                                     *)
(***************************************************************************)
C16_HandlesClosedAfterUse ==
    /\ client = "closed" => pc \notin {"read", "exec", "write"}
    /\ pc = "exited" => client \in {"closed", "none"}

(***************************************************************************)
(* C17. With period P = cycle_time and an iteration that raised nothing    *)
(* and took d: if d < P the task sleeps exactly P - d, so that the sleep   *)
(* ends P after the iteration started, and the sleep leads to the top of   *)
(* the loop; if d >= P the task does not sleep and is at the top of the    *)
(* loop at once. The sleep depends on d alone, not on earlier iterations.  *)
(***************************************************************************)
C17_PacingSleepsRemainder ==
    /\ [][pc = "pace" /\ pc' # pc =>
            /\ cycle_duration' \in 0..MaxDuration
            /\ IF cycle_duration' < cycle_time
               THEN pc' = "sleep" /\ sleep_for' = cycle_time - cycle_duration'
               ELSE pc' = "top" /\ sleep_for' = 0]_vars
    /\ [](pc = "sleep" => sleep_for > 0 /\ cycle_duration + sleep_for = cycle_time)
    /\ [][pc = "sleep" /\ pc' # pc => pc' = "top" /\ iter' = iter]_vars

\* the second iteration took half a period and sleeps the other half
C17_Witness == iter = 2 /\ pc = "sleep" /\ cycle_duration = 1 /\ sleep_for = 1

\* the second iteration overran the period and is back at the top of the loop
C17_WitnessOverrun == iter = 2 /\ pc = "top" /\ cycle_duration >= cycle_time

(***************************************************************************)
(* The scan task beside a server role that fails or is kept busy           *)
(***************************************************************************)
\* the start_server task raises (the port is taken, the listener breaks)
ServerFails ==
    /\ server = "serving"
    /\ server' = "failed"
    /\ UNCHANGED <<peer_vars, runtime_vars, registers, client, running, pc, cycle_duration, sleep_for,
                   plant_vars, iter, phases, read_status, history_vars, iter_inputs>>

NextServer ==
    \/ ScanStep
    \/ \E r \in {"SystemEnable", "SetpointTemp"} : SupervisoryWrite(r, 250)
    \/ ServerFails

\* the event loop runs the scan task when it is ready: the plant's answers
\* arrive or time out, the sleeps expire. Nothing is assumed of the server role
SpecServer == InitWith({NoProgram}) /\ [][NextServer]_vars /\ WF_vars(ScanStep)

(***************************************************************************)
(* C18. The scan task's progress does not depend on the server role: no    *)
(* step of the server role (a supervisory write, the server task failing)  *)
(* moves or changes the scan task, and whatever the server role does or    *)
(* fails to do, every cycle is followed by the next one (up to the bound   *)
(* of the model).                                                          *)
(***************************************************************************)
C18_ScanIndependentOfServer ==
    /\ [][(server' # server \/ writes' # writes) =>
            <<pc, iter, cycle_count, running, memory, client>>'
                = <<pc, iter, cycle_count, running, memory, client>>]_vars
    /\ \A n \in 0..(MaxIter - 1) : (cycle_count = n) ~> (cycle_count = n + 1)

\* the server task has failed after a client wrote, and the scan task has
\* completed its cycles
C18_Witness ==
    /\ server = "failed"
    /\ writes > 0
    /\ cycle_count = MaxIter
    /\ pc \in {"sleep", "top"}

(***************************************************************************)
(* A loaded program that demands more than full fan speed                  *)
(***************************************************************************)
\* PROGRAM Boost
\*   VAR_INPUT RoomTemperature : REAL; END_VAR
\*   VAR_OUTPUT FanSpeed : INT; ChillerOn : BOOL; END_VAR
\*   IF RoomTemperature > 25.0 THEN FanSpeed := 150; ChillerOn := TRUE;
\*   ELSE FanSpeed := 50; ChillerOn := FALSE; END_IF;
\* END_PROGRAM
ProgBoost ==
    Program("Boost",
        ("RoomTemperature" :> Variable("REAL", NoInit, TRUE, FALSE))
        @@ ("FanSpeed" :> Variable("INT", NoInit, FALSE, TRUE))
        @@ ("ChillerOn" :> Variable("BOOL", NoInit, FALSE, TRUE)),
        << If(Cmp(">", Var("RoomTemperature"), Num(25)),
              << Assign("FanSpeed", Num(150)), Assign("ChillerOn", True) >>,
              <<>>,
              << Assign("FanSpeed", Num(50)), Assign("ChillerOn", False) >>) >>)

\* the scan loop run with the Boost program
SpecBoost == InitWith({ProgBoost}) /\ [][ScanStep \/ PlantStep]_vars

(***************************************************************************)
(* C19. In every scan iteration, for every loaded program and for the      *)
(* Default Controller, the word write_outputs writes to the plant's        *)
(* ActuatorFanSpeed register is in 0..100 and the word it writes to        *)
(* ActuatorChiller is 0 or 1.                                              *)
(***************************************************************************)
C19_ActuatorWordsInRange ==
    /\ plant_actuators[1] \in 0..100
    /\ plant_actuators[2] \in {0, 1}

(***************************************************************************)
(* Programs that show where a cycle starts and where it stops              *)
(***************************************************************************)
\* statements of a program of the family
MaxStmts == 3

\* "inc" is Acc := Acc + 1; "double" is Acc := Acc * 2; "boom" is
\* IF Sel THEN Trip := Missing + 1; END_IF; which raises when Sel is true
StepKinds == {"inc", "double", "boom"}

StepStatement(kind) ==
    IF kind = "inc" THEN Assign("Acc", BinOp("+", Var("Acc"), Num(1)))
    ELSE IF kind = "double" THEN Assign("Acc", BinOp("*", Var("Acc"), Num(2)))
    ELSE If(Var("Sel"), << Assign("Trip", BinOp("+", Var("Missing"), Num(1))) >>, <<>>, <<>>)

StepVariables ==
    ("Sel" :> Variable("BOOL", NoInit, TRUE, FALSE))
    @@ ("Acc" :> Variable("INT", NoInit, FALSE, FALSE))
    @@ ("AlarmActive" :> Variable("BOOL", NoInit, FALSE, TRUE))

StepProgram(kinds) ==
    Program("Steps", StepVariables, [i \in 1..Len(kinds) |-> StepStatement(kinds[i])])

StepPrograms ==
    {StepProgram(kinds) : kinds \in UNION {[1..n -> StepKinds] : n \in 1..MaxStmts}}

InitSteps ==
    \E prog \in StepPrograms, sel \in BOOLEAN :
        InterpStart(prog, [runtime_memory(prog) EXCEPT !.inputs["Sel"] = PyBool(sel)])

SpecSteps == InitSteps /\ [][NextInterp]_vars

(***************************************************************************)
(* C20. Every cycle executes the program's statements top to bottom from   *)
(* the first statement: the cycle's effect is that of statements 1, 2, ... *)
(* in order up to the end or to the first statement that raises, whatever  *)
(* happened in the cycle before. After an error aborted cycle N at         *)
(* statement k, cycle N+1 starts at statement 1 again.                     *)
(***************************************************************************)
KindOf(st) ==
    IF st.type = "if" THEN "boom"
    ELSE IF st.value.op = "*" THEN "double"
    ELSE "inc"

\* the index of the first statement that raises with input sel; 0 if none
FirstRaising(stmts, sel) ==
    IF \E k \in 1..Len(stmts) : KindOf(stmts[k]) = "boom" /\ sel
    THEN CHOOSE k \in 1..Len(stmts) :
            /\ KindOf(stmts[k]) = "boom"
            /\ \A j \in 1..(k - 1) : KindOf(stmts[j]) # "boom"
    ELSE 0

RECURSIVE AccAfter(_, _, _, _)
\* Acc (in tenths) after statements k .. last of stmts, in order, from acc
AccAfter(stmts, k, last, acc) ==
    IF k > last THEN acc
    ELSE AccAfter(stmts, k + 1, last,
                  IF KindOf(stmts[k]) = "inc" THEN acc + 10
                  ELSE IF KindOf(stmts[k]) = "double" THEN acc * 2
                  ELSE acc)

C20_EveryCycleFromFirstStatement ==
    [][cycle_count' # cycle_count =>
        LET stmts == program.statements
            sel == Truthy(memory.inputs["Sel"])
            k == FirstRaising(stmts, sel)
            last == IF k = 0 THEN Len(stmts) ELSE k - 1
        IN  /\ memory'.internal["Acc"] = PyNum(AccAfter(stmts, 1, last, Tenths(memory.internal["Acc"])))
            /\ cycle_raised' = (k # 0)
            /\ k # 0 => AlarmSet(memory')]_vars

\* Acc := Acc + 1; IF Sel ...; Acc := Acc * 2: the first cycle was aborted at
\* statement 2 (Acc = 1), the second ran statements 1 to 3 (Acc = (1 + 1) * 2)
C20_Witness ==
    /\ program = StepProgram(<<"inc", "boom", "double">>)
    /\ cycle_count = 2
    /\ AlarmSet(memory)
    /\ ~cycle_raised
    /\ memory.internal["Acc"] = PyNum(40)

(***************************************************************************)
(* The parser: STTransformer's callbacks on the tree of a program text     *)
(***************************************************************************)
\* Python values the callbacks hand to one another
Tree(data, children) == [py |-> "Tree", data |-> data, children |-> children]

PyList(items) == [py |-> "list", items |-> items]

\* {'_vars': vars_dict}
VarsDict(vars_dict) == [py |-> "dict", vars_dict |-> vars_dict]

\* d.update(e)
DictUpdate(d, e) ==
    [n \in (DOMAIN d) \cup (DOMAIN e) |-> IF n \in DOMAIN e THEN e[n] ELSE d[n]]

\* the items of a `declaration` node once the callbacks of its children have
\* run: the IDENTIFIER, the string of bool_type .. time_type, and the dict of
\* init_value when the declaration has one (init is <<>> or one dict)
DeclarationItems(n, ty, init) == [name |-> n, type_name |-> ty, init |-> init]

\* STTransformer.init_value
init_value(literal) == [init_value |-> literal]

\* STTransformer.declaration: {name: Variable(name, type_name, initial_value)}
declaration(items) ==
    LET initial_value == IF items.init = <<>> THEN NoInit ELSE items.init[1].init_value
    IN  items.name :> Variable(items.type_name, initial_value, FALSE, FALSE)

RECURSIVE var_declarations_from(_, _)
var_declarations_from(declarations, vars_dict) ==
    IF declarations = <<>> THEN vars_dict
    ELSE var_declarations_from(Tail(declarations), DictUpdate(vars_dict, Head(declarations)))

\* STTransformer.var_declarations
var_declarations(declarations) == VarsDict(var_declarations_from(declarations, EmptyDict))

\* a VAR_INPUT block whose variables are not marked
var_input_declarations_unmarked(declarations) == var_declarations(declarations)

\* STTransformer.var_input_declarations: var.is_input = True
var_input_declarations(declarations) ==
    LET marked == [i \in 1..Len(declarations) |->
                      [n \in DOMAIN declarations[i] |->
                          [declarations[i][n] EXCEPT !.is_input = TRUE]]]
    IN  VarsDict(var_declarations_from(marked, EmptyDict))

\* STTransformer.var_output_declarations: var.is_output = True
var_output_declarations(declarations) ==
    LET marked == [i \in 1..Len(declarations) |->
                      [n \in DOMAIN declarations[i] |->
                          [declarations[i][n] EXCEPT !.is_output = TRUE]]]
    IN  VarsDict(var_declarations_from(marked, EmptyDict))

\* STTransformer.statement_block
statement_block(statements) == PyList(statements)

RECURSIVE program_args(_, _, _)
\* the loop `for arg in args` of STTransformer.program
program_args(args, variables, statements) ==
    IF args = <<>> THEN [variables |-> variables, statements |-> statements]
    ELSE LET arg == Head(args)
         IN  IF arg.py = "Tree" /\ arg.data = "declaration_block"
             THEN IF arg.children # <<>> /\ arg.children[1].py = "dict"
                  THEN program_args(Tail(args),
                                    DictUpdate(variables, arg.children[1].vars_dict),
                                    statements)
                  ELSE program_args(Tail(args), variables, statements)
             ELSE IF arg.py = "dict"
             THEN program_args(Tail(args), DictUpdate(variables, arg.vars_dict), statements)
             ELSE IF arg.py = "list"
             THEN program_args(Tail(args), variables, arg.items)
             ELSE program_args(Tail(args), variables, statements)

\* STTransformer.program
STTransformer_program(name, args) ==
    LET r == program_args(args, EmptyDict, <<>>)
    IN  Program(name, r.variables, r.statements)

\* the grammar's var_block, var_input_block and var_output_block with their
\* aliases; declaration_block has no callback and stays a Tree
declaration_block(block) ==
    LET declarations == [i \in 1..Len(block.declarations) |->
                            declaration(block.declarations[i])]
    IN  Tree("declaration_block",
             << IF block.rule = "var_declarations" THEN var_declarations(declarations)
                ELSE IF block.rule = "var_input_declarations"
                THEN var_input_declarations(declarations)
                ELSE var_output_declarations(declarations) >>)

\* STParser.parse on a text the grammar accepts: the callbacks run bottom-up
STParser_parse(tree) ==
    STTransformer_program(tree.name,
        [i \in 1..Len(tree.blocks) |-> declaration_block(tree.blocks[i])]
            \o << statement_block(tree.statements) >>)

(***************************************************************************)
(* The program texts the parser is run on                                  *)
(***************************************************************************)
\* declaration blocks of a text
MaxBlocks == 2

\* declarations of a block
MaxDecls == 2

\* A : BOOL;   B : REAL := 5.0;
Declarations ==
    {DeclarationItems("A", "BOOL", <<>>),
     DeclarationItems("B", "REAL", << init_value(Num(5)) >>)}

BlockRules == {"var_declarations", "var_input_declarations", "var_output_declarations"}

DeclarationBlocks ==
    {[rule |-> r, declarations |-> ds] :
        r \in BlockRules, ds \in UNION {[1..n -> Declarations] : n \in 1..MaxDecls}}

\* one, two and three top-level statements; the IF holds a statement of its own
TopLevelStatements ==
    {StepProgram(kinds).statements :
        kinds \in {<<"inc">>, <<"boom", "inc">>, <<"double", "inc", "boom">>}}

ProgramTrees ==
    {[name |-> "Main", blocks |-> bs, statements |-> ss] :
        bs \in UNION {[1..n -> DeclarationBlocks] : n \in 0..MaxBlocks},
        ss \in TopLevelStatements}

InitParse == \E tree \in ProgramTrees : BootWith(tree)

\* PLCSimulator.load_program on a file the grammar accepts: the text is parsed
\* and the runtime constructed from the Program
ParseProgram ==
    /\ pc = "load"
    /\ parse_tree # NoTree
    /\ program' = STParser_parse(parse_tree)
    /\ memory' = runtime_memory(program')
    /\ iter_inputs' = memory'.inputs
    /\ pc' = "init"
    /\ UNCHANGED <<peer_vars, parse_tree, cycle_count, system_enabled, cycle_raised, registers, client,
                   server, running, cycle_duration, sleep_for, plant_vars, iter, phases,
                   read_status, history_vars>>

SpecParse == InitParse /\ [][ParseProgram]_vars

(***************************************************************************)
(* C21. For every valid program text, parse returns a Program in which     *)
(* each variable's class is the class of its declaring block (VAR is       *)
(* Internal, VAR_INPUT is Input, VAR_OUTPUT is Output), the last such      *)
(* block when the name is declared in several, so that every name has a    *)
(* single class; and whose statements are the top-level statements of the  *)
(* source, as many and in source order.                                    *)
(***************************************************************************)
ClassOfBlock(rule) ==
    IF rule = "var_input_declarations" THEN "input"
    ELSE IF rule = "var_output_declarations" THEN "output"
    ELSE "internal"

ClassOfVariable(var) ==
    IF var.is_input /\ var.is_output THEN "both"
    ELSE IF var.is_input THEN "input"
    ELSE IF var.is_output THEN "output"
    ELSE "internal"

\* the blocks of the tree that declare name n
DeclaringBlocks(tree, n) ==
    {i \in 1..Len(tree.blocks) :
        \E k \in 1..Len(tree.blocks[i].declarations) :
            tree.blocks[i].declarations[k].name = n}

DeclaredNames(tree) == {n \in {"A", "B"} : DeclaringBlocks(tree, n) # {}}

C21_ParseKeepsClassesAndStatements ==
    pc = "init" =>
        /\ DOMAIN program.variables = DeclaredNames(parse_tree)
        /\ \A n \in DeclaredNames(parse_tree) :
              LET last == CHOOSE i \in DeclaringBlocks(parse_tree, n) :
                              \A j \in DeclaringBlocks(parse_tree, n) : j <= i
              IN  ClassOfVariable(program.variables[n])
                      = ClassOfBlock(parse_tree.blocks[last].rule)
        /\ Len(program.statements) = Len(parse_tree.statements)
        /\ \A k \in 1..Len(parse_tree.statements) :
              program.statements[k] = parse_tree.statements[k]

\* VAR_INPUT A; VAR_OUTPUT A, B; and three statements: A is an output only
C21_Witness ==
    /\ pc = "init"
    /\ Len(parse_tree.blocks) = 2
    /\ parse_tree.blocks[1].rule = "var_input_declarations"
    /\ parse_tree.blocks[2].rule = "var_output_declarations"
    /\ DeclaringBlocks(parse_tree, "A") = {1, 2}
    /\ ClassOfVariable(program.variables["A"]) = "output"
    /\ Len(program.statements) = 3

(***************************************************************************)
(* Programs in which a statement inside an IF block raises                 *)
(***************************************************************************)
\* "trap" is IF Sel THEN Acc := Acc + 1; Trip := Missing + 1; Acc := Acc * 2;
\* END_IF; its second statement raises when Sel is true
AbortKinds == {"inc", "double", "trap"}

AbortStatement(kind) ==
    IF kind = "trap"
    THEN If(Var("Sel"),
            << StepStatement("inc"),
               Assign("Trip", BinOp("+", Var("Missing"), Num(1))),
               StepStatement("double") >>,
            <<>>, <<>>)
    ELSE StepStatement(kind)

AbortProgram(kinds) ==
    Program("Abort", StepVariables, [i \in 1..Len(kinds) |-> AbortStatement(kinds[i])])

AbortPrograms ==
    {AbortProgram(kinds) : kinds \in UNION {[1..n -> AbortKinds] : n \in 1..MaxStmts}}

InitAbort ==
    \E prog \in AbortPrograms, sel \in BOOLEAN :
        InterpStart(prog, [runtime_memory(prog) EXCEPT !.inputs["Sel"] = PyBool(sel)])

SpecAbort == InitAbort /\ [][NextInterp]_vars

(***************************************************************************)
(* C22. When statement k of a cycle raises an evaluation error, the        *)
(* statements after it are not executed in that cycle, the rest of the IF  *)
(* block it is in included; what statements 1..k-1 and the statements of   *)
(* the IF block before the error wrote stays in Memory (no rollback); the  *)
(* alarm is set, and the next cycle can run.                               *)
(***************************************************************************)
\* the top-level statements that are traps
Traps(stmts) == {k \in 1..Len(stmts) : stmts[k].type = "if"}

RECURSIVE AccBefore(_, _, _)
\* Acc (in tenths) after the top-level statements 1 .. k - 1, none of which raises
AccBefore(stmts, k, acc) ==
    IF k = 1 THEN acc
    ELSE LET before == AccBefore(stmts, k - 1, acc)
             st == stmts[k - 1]
         IN  IF st.type = "if" THEN before
             ELSE IF st.value.op = "*" THEN before * 2
             ELSE before + 10

C22_ErrorSkipsRestKeepsEffects ==
    /\ [][cycle_count' # cycle_count =>
            LET stmts == program.statements
                acc == Tenths(memory.internal["Acc"])
                sel == Truthy(memory.inputs["Sel"])
            IN  IF sel /\ Traps(stmts) # {}
                THEN LET k == CHOOSE i \in Traps(stmts) : \A j \in Traps(stmts) : i <= j
                     IN  /\ cycle_raised'
                         /\ AlarmSet(memory')
                         /\ memory'.internal
                               = [memory.internal EXCEPT
                                     !["Acc"] = PyNum(AccBefore(stmts, k, acc) + 10)]
                         /\ memory'.inputs = memory.inputs
                ELSE /\ ~cycle_raised'
                     /\ memory'.internal
                           = [memory.internal EXCEPT
                                 !["Acc"] = PyNum(AccBefore(stmts, Len(stmts) + 1, acc))]
                     /\ memory'.outputs = memory.outputs
                     /\ memory'.inputs = memory.inputs]_vars
    /\ [](cycle_raised /\ cycle_count < MaxIter => ENABLED InterpCycle)

\* Acc := Acc + 1; IF Sel THEN ... END_IF; Acc := Acc * 2: the second cycle
\* started with Acc = 2, added 1 in statement 1 and 1 in the IF block, and
\* raised there: neither the doubling in the block nor statement 3 ran
C22_Witness ==
    /\ program = AbortProgram(<<"inc", "trap", "double">>)
    /\ cycle_count = 2
    /\ cycle_raised
    /\ memory.internal["Acc"] = PyNum(40)

(***************************************************************************)
(* Programs of one assignment                                              *)
(***************************************************************************)
\* Out is a declared output, Int a declared internal, Sel a declared input and
\* New is not declared
AssignTargets == {"Out", "Int", "New", "Sel"}

AssignValues ==
    {Num(7), True, Var("Sel"), Var("Int"), BinOp("+", Var("Int"), Num(1)),
     BinOp("+", Var("Out"), Num(2))}

AssignVariables ==
    ("Sel" :> Variable("BOOL", NoInit, TRUE, FALSE))
    @@ ("Out" :> Variable("REAL", NoInit, FALSE, TRUE))
    @@ ("Int" :> Variable("INT", Num(3), FALSE, FALSE))

AssignProgram(target, value) ==
    Program("Assign", AssignVariables, << Assign(target, value) >>)

AssignPrograms == {AssignProgram(t, v) : t \in AssignTargets, v \in AssignValues}

InitAssign ==
    \E prog \in AssignPrograms, sel \in BOOLEAN :
        InterpStart(prog, [runtime_memory(prog) EXCEPT !.inputs["Sel"] = PyBool(sel)])

SpecAssign == InitAssign /\ [][NextInterp]_vars

(***************************************************************************)
(* C23. An assignment whose target is a key of Memory.outputs writes only  *)
(* Memory.outputs[target]; an assignment whose target is in neither        *)
(* Memory.outputs nor Memory.inputs writes only Memory.internal[target]    *)
(* and creates the entry if it was not there; every other entry of Memory  *)
(* is unchanged.                                                           *)
(***************************************************************************)
C23_AssignmentWritesOnlyTarget ==
    [][cycle_count' # cycle_count =>
        LET target == program.statements[1].target
            value == evaluate_expression(memory, program.statements[1].value)
        IN  /\ ~IsRaised(value)
            /\ memory'.inputs = memory.inputs
            /\ IF target \in DOMAIN memory.outputs
               THEN /\ DOMAIN memory'.outputs = DOMAIN memory.outputs
                    /\ memory'.outputs[target] = value
                    /\ \A n \in DOMAIN memory.outputs \ {target} :
                          memory'.outputs[n] = memory.outputs[n]
                    /\ memory'.internal = memory.internal
               ELSE IF target \notin DOMAIN memory.inputs
               THEN /\ DOMAIN memory'.internal = DOMAIN memory.internal \cup {target}
                    /\ memory'.internal[target] = value
                    /\ \A n \in DOMAIN memory.internal \ {target} :
                          memory'.internal[n] = memory.internal[n]
                    /\ memory'.outputs = memory.outputs
               ELSE TRUE]_vars

\* New := Int + 1 has run: New was created among the internals and nothing
\* else changed
C23_Witness ==
    /\ program = AssignProgram("New", BinOp("+", Var("Int"), Num(1)))
    /\ cycle_count = 1
    /\ DOMAIN memory.internal = {"Int", "New"}
    /\ memory.internal["New"] = PyNum(40)
    /\ memory.internal["Int"] = PyNum(30)
    /\ memory.outputs["Out"] = PyNum(0)

\* Out := Out + 2 has run twice: only the output Out changed
C23_WitnessOutput ==
    /\ program = AssignProgram("Out", BinOp("+", Var("Out"), Num(2)))
    /\ cycle_count = 2
    /\ memory.outputs["Out"] = PyNum(40)
    /\ DOMAIN memory.internal = {"Int"}

(***************************************************************************)
(* A program whose names come to be in more than one class                 *)
(***************************************************************************)
\* PROGRAM Shadow
\*   VAR AlarmActive : BOOL; RoomTemperature : REAL; END_VAR
\*   VAR_OUTPUT SystemEnable : BOOL; END_VAR
\*   SeenAlarm := AlarmActive;
\*   SeenTemp := RoomTemperature;
\*   SystemEnable := TRUE;
\*   SeenEnable := SystemEnable;
\*   RoomTemperature := 99;
\*   IF RoomTemperature > 25 THEN Trip := Missing + 1; END_IF;
\* END_PROGRAM
\* read_inputs adds RoomTemperature to the inputs, update_server_registers adds
\* SystemEnable to the inputs, the except clause of execute_cycle adds
\* AlarmActive to the outputs
ProgShadow ==
    Program("Shadow",
        ("AlarmActive" :> Variable("BOOL", NoInit, FALSE, FALSE))
        @@ ("RoomTemperature" :> Variable("REAL", NoInit, FALSE, FALSE))
        @@ ("SystemEnable" :> Variable("BOOL", NoInit, FALSE, TRUE)),
        << Assign("SeenAlarm", Var("AlarmActive")),
           Assign("SeenTemp", Var("RoomTemperature")),
           Assign("SystemEnable", True),
           Assign("SeenEnable", Var("SystemEnable")),
           Assign("RoomTemperature", Num(99)),
           If(Cmp(">", Var("RoomTemperature"), Num(25)),
              << Assign("Trip", BinOp("+", Var("Missing"), Num(1))) >>, <<>>, <<>>) >>)

SpecShadow == InitWith({ProgShadow}) /\ [][ScanStep \/ PlantStep]_vars

(***************************************************************************)
(* C24. A variable read resolves the name in the order Input, Output,      *)
(* Internal and returns the first match: when the name is in more than one *)
(* class the value read is that of the earliest class in that order,       *)
(* whichever class was written last.                                       *)
(***************************************************************************)
\* the classes of memory m that hold name n, 1 for Input, 2 Output, 3 Internal
ClassesHolding(m, n) ==
    {i \in 1..3 : n \in DOMAIN (<<m.inputs, m.outputs, m.internal>>[i])}

EarliestValue(m, n) ==
    LET first == CHOOSE i \in ClassesHolding(m, n) : \A j \in ClassesHolding(m, n) : i <= j
    IN  (<<m.inputs, m.outputs, m.internal>>[first])[n]

C24_ReadTakesEarliestClass ==
    [][ExecStep /\ program = ProgShadow =>
        /\ memory'.internal["SeenAlarm"] = EarliestValue(memory, "AlarmActive")
        /\ memory'.internal["SeenTemp"] = EarliestValue(memory, "RoomTemperature")
        /\ memory'.outputs["SystemEnable"] = PyBool(TRUE)
        /\ memory'.internal["SeenEnable"] = EarliestValue(memory', "SystemEnable")
        /\ ClassesHolding(memory', "SystemEnable") = ClassesHolding(memory, "SystemEnable")]_vars

\* second cycle: SystemEnable is an input (false, from the command register)
\* and an output (true, just assigned), and the read gave the input's value;
\* AlarmActive is an output (true) and an internal (false), and the read gave
\* the output's value; RoomTemperature is an input (26.0) and an internal
C24_Witness ==
    /\ program = ProgShadow
    /\ cycle_count = 2
    /\ pc = "write"
    /\ ClassesHolding(memory, "SystemEnable") = {1, 2}
    /\ memory.inputs["SystemEnable"] = PyBool(FALSE)
    /\ memory.outputs["SystemEnable"] = PyBool(TRUE)
    /\ memory.internal["SeenEnable"] = PyBool(FALSE)
    /\ ClassesHolding(memory, "AlarmActive") = {2, 3}
    /\ memory.internal["AlarmActive"] = PyBool(FALSE)
    /\ memory.internal["SeenAlarm"] = PyBool(TRUE)
    /\ ClassesHolding(memory, "RoomTemperature") = {1, 3}
    /\ memory.internal["SeenTemp"] = PyNum(260)

(***************************************************************************)
(* Programs of one comparison or logical expression                        *)
(***************************************************************************)
\* Missing + 1 raises: Missing is in no class and reads as None
RaisingOperand == BinOp("+", Var("Missing"), Num(1))

Operands == {True, False, Num(5), Var("Sel"), RaisingOperand}

LogicExprs ==
    {Logic(op, l, r) : op \in {"AND", "OR"}, l \in Operands, r \in Operands}
    \cup {Cmp(op, l, r) : op \in {">", "="}, l \in Operands, r \in Operands}

\* Res := <expression>;
LogicProgram(expr) ==
    Program("Logic",
        ("Sel" :> Variable("BOOL", NoInit, TRUE, FALSE))
        @@ ("Res" :> Variable("BOOL", NoInit, FALSE, FALSE)),
        << Assign("Res", expr) >>)

LogicPrograms == {LogicProgram(e) : e \in LogicExprs}

InitLogic ==
    \E prog \in LogicPrograms, sel \in BOOLEAN :
        InterpStart(prog, [runtime_memory(prog) EXCEPT !.inputs["Sel"] = PyBool(sel)])

SpecLogic == InitLogic /\ [][NextInterp]_vars

(***************************************************************************)
(* C25. Comparisons and AND / OR evaluate both operands: when the right    *)
(* operand raises, the expression raises and the cycle sets AlarmActive,   *)
(* even when the left operand alone decides the result; and the value of   *)
(* every comparison and AND / OR expression is a boolean.                  *)
(***************************************************************************)
C25_BothOperandsAndBoolean ==
    [][cycle_count' # cycle_count =>
        LET expr == program.statements[1].value
        IN  IF expr.left = RaisingOperand \/ expr.right = RaisingOperand
            THEN cycle_raised' /\ AlarmSet(memory') /\ memory'.internal = memory.internal
            ELSE ~cycle_raised' /\ memory'.internal["Res"].k = "bool"]_vars

\* the first half of C25 alone: an operand that raises makes the cycle raise,
\* whatever the other operand is
C25_BothOperandsEvaluated ==
    [][cycle_count' # cycle_count =>
        LET expr == program.statements[1].value
        IN  cycle_raised' = (expr.left = RaisingOperand \/ expr.right = RaisingOperand)]_vars

\* Res := FALSE AND (Missing + 1) has run and raised
C25_WitnessEvaluated ==
    /\ program = LogicProgram(Logic("AND", False, RaisingOperand))
    /\ cycle_count = 1
    /\ cycle_raised
    /\ AlarmSet(memory)

(***************************************************************************)
(* C26. cycle_count never decreases, and every call of execute_cycle       *)
(* increases it by exactly 1, a call whose cycle aborts with an error      *)
(* included; nothing else changes it.                                      *)
(***************************************************************************)
C26_CycleCountCountsEveryCall ==
    /\ [][cycle_count' >= cycle_count]_vars
    /\ [][ExecStep => cycle_count' = cycle_count + 1]_vars
    /\ [][cycle_count' # cycle_count => ExecStep]_vars

\* two cycles of the Clash program, which raises in every cycle, were counted
C26_Witness ==
    /\ program = ProgClash
    /\ cycle_count = 2
    /\ cycle_raised
    /\ AlarmSet(memory)
    /\ pc = "write"

(***************************************************************************)
(* C27. A failed or absent plant connection does not prevent the rest of   *)
(* the iteration: when read_inputs fails (no client, an error response or  *)
(* an exception), the task goes on to execute_cycle, and the same          *)
(* iteration runs execute_cycle, attempts write_outputs and performs       *)
(* update_server_registers; the scan loop does not exit.                   *)
(***************************************************************************)
ReadFailed == read_status \in {"skipped", "failed"}

C27_FailedReadKeepsIterationGoing ==
    /\ [][pc = "read" /\ pc' # pc /\ read_status' \in {"skipped", "failed"} =>
            pc' = "exec" /\ running']_vars
    /\ [](ReadFailed /\ pc \in {"exec", "write", "publish", "pace"} =>
            /\ running
            /\ phases = SubSeq(<<"read", "exec", "write", "publish">>, 1, Len(phases))
            /\ pc = (<<"exec", "write", "publish", "pace">>)[Len(phases)]
            /\ pc # "exec" => cycle_count = iter)
    /\ (ReadFailed /\ pc = "exec") ~>
            (ReadFailed /\ pc = "pace" /\ phases = <<"read", "exec", "write", "publish">>)

\* the second iteration's read failed on an open client, and the iteration has
\* run execute_cycle, write_outputs and update_server_registers
C27_Witness ==
    /\ iter = 2
    /\ client = "open"
    /\ read_status = "failed"
    /\ cycle_count = 2
    /\ pc = "pace"
    /\ phases = <<"read", "exec", "write", "publish">>

(***************************************************************************)
(* A program whose outputs are not whole numbers of the registers' range   *)
(***************************************************************************)
\* PROGRAM Trim
\*   VAR_OUTPUT FanSpeed : INT; ChillerOn : BOOL; SystemStatus : INT; END_VAR
\*   FanSpeed := 45.7; ChillerOn := TRUE; SystemStatus := 0 - 2.5;
\* END_PROGRAM
ProgTrim ==
    Program("Trim",
        ("FanSpeed" :> Variable("INT", NoInit, FALSE, TRUE))
        @@ ("ChillerOn" :> Variable("BOOL", NoInit, FALSE, TRUE))
        @@ ("SystemStatus" :> Variable("INT", NoInit, FALSE, TRUE)),
        << Assign("FanSpeed", Lit(PyNum(457))),
           Assign("ChillerOn", True),
           Assign("SystemStatus", BinOp("-", Num(0), Lit(PyNum(25)))) >>)

NextPublish ==
    \/ ScanStep
    \/ PlantStep
    \/ \E r \in {"SystemEnable", "SetpointTemp"} : SupervisoryWrite(r, 250)

\* the scan loop with the Trim program, the Clash program (which raises in
\* every cycle) or the Default Controller, and a supervisory client
SpecPublish == InitWith({ProgTrim, ProgClash, NoProgram}) /\ [][NextPublish]_vars

(***************************************************************************)
(* C28. After every publish step (update_server_registers) that raises no  *)
(* error, the Status registers FanSpeed, ChillerOn, SystemStatus and       *)
(* AlarmActive hold the integer encoding of the current Memory.outputs     *)
(* values (a bool as 0 / 1, a number truncated toward zero, 0 when the     *)
(* output is absent), and Memory.inputs SystemEnable, SetpointTemp,        *)
(* SetpointHumidity, TempDeadband and HumidityDeadband are the decoded     *)
(* values (word # 0, word / 10) of the Command registers at that moment.   *)
(***************************************************************************)
\* int(outputs.get(n, 0)) for an output that is a bool or a number
IntegerEncoding(outputs, n) ==
    IF n \notin DOMAIN outputs THEN 0
    ELSE IF outputs[n].k = "bool" THEN outputs[n].v
    ELSE IF outputs[n].v >= 0 THEN outputs[n].v \div 10
    ELSE -((-outputs[n].v) \div 10)

PublishStep == pc = "publish" /\ pc' # pc

C28_PublishMirrorsMemory ==
    [][PublishStep /\ ~publish_raises(memory) =>
        /\ \A n \in {"FanSpeed", "ChillerOn", "SystemStatus", "AlarmActive"} :
              registers'[n] = IntegerEncoding(memory'.outputs, n)
        /\ memory'.outputs = memory.outputs
        /\ memory'.inputs["SystemEnable"] = PyBool(registers'["SystemEnable"] # 0)
        /\ \A c \in CommandNames \ {"SystemEnable"} :
              memory'.inputs[c] = PyNum(registers'[c])
        /\ \A c \in CommandNames : registers'[c] = registers[c]]_vars

\* the Trim program's outputs 45.7, TRUE and -2.5 were published as 45, 1 and
\* -2, and the setpoint a supervisory client wrote (250) was decoded to 25.0
C28_Witness ==
    /\ program = ProgTrim
    /\ pc = "pace"
    /\ registers["FanSpeed"] = 45
    /\ registers["ChillerOn"] = 1
    /\ registers["SystemStatus"] = -2
    /\ registers["AlarmActive"] = 0
    /\ registers["SetpointTemp"] = 250
    /\ memory.inputs["SetpointTemp"] = PyNum(250)

(***************************************************************************)
(* The scan loop reading any 16-bit words from the plant's server          *)
(***************************************************************************)
\* powers of two and their predecessors, where doubles change their spacing,
\* the ends of the range and a few words between
SensorWords ==
    {2^j : j \in 0..15} \cup {2^j - 1 : j \in 1..16} \cup {0, 10, 231, 237, 1000, 50001}

WordPairs == {<<t, 65535 - t>> : t \in SensorWords}

\* result.registers of the read: the server at the plant's address answers
\* with any two words
PlantAnswers ==
    /\ pc = "read"
    /\ \E p \in WordPairs \ {plant_sensors} : plant_sensors' = p
    /\ UNCHANGED <<peer_vars, runtime_vars, registers, client, server, running, pc, cycle_duration,
                   sleep_for, plant_actuators, iter, phases, read_status, history_vars,
                   iter_inputs>>

SpecWords == InitWith({NoProgram}) /\ [][ScanStep \/ PlantAnswers]_vars

(***************************************************************************)
(* C29. Fixed-point round trip: after a successful plant read of the       *)
(* sensor words (t, h), Memory.inputs RoomTemperature and RoomHumidity are *)
(* t / 10 and h / 10, and the Status registers RoomTemperature and         *)
(* RoomHumidity are exactly t and h, for every pair of 16-bit words.       *)
(***************************************************************************)
C29_SensorWordsRoundTrip ==
    [][pc = "read" /\ pc' # pc /\ read_status' = "ok" =>
        /\ memory'.inputs["RoomTemperature"] = PyNum(plant_sensors[1])
        /\ memory'.inputs["RoomHumidity"] = PyNum(plant_sensors[2])
        /\ registers'["RoomTemperature"] = plant_sensors[1]
        /\ registers'["RoomHumidity"] = plant_sensors[2]]_vars

\* the words (32768, 32767) were read in the second iteration and published
C29_Witness ==
    /\ iter = 2
    /\ pc = "exec"
    /\ read_status = "ok"
    /\ plant_sensors = <<32768, 32767>>
    /\ registers["RoomTemperature"] = 32768
    /\ registers["RoomHumidity"] = 32767
    /\ memory.inputs["RoomTemperature"] = PyNum(32768)

(***************************************************************************)
(* C30. Every value the bridge writes to a register, the plant's actuator  *)
(* registers in write_outputs and the Status registers in _write_register, *)
(* is an unsigned 16-bit word in 0..65535, for every loaded program and    *)
(* every reachable Memory.outputs value.                                   *)
(***************************************************************************)
C30_RegisterValuesAreWords ==
    /\ \A n \in StatusNames : IsWord(registers[n])
    /\ IsWord(plant_actuators[1])
    /\ IsWord(plant_actuators[2])

(***************************************************************************)
(* C31. The plant read (read_inputs) writes only the RoomTemperature and   *)
(* RoomHumidity entries of Memory.inputs: it leaves Memory.outputs,        *)
(* Memory.internal and every other entry of Memory.inputs as they were,    *)
(* and write_outputs leaves all of Memory unchanged.                       *)
(***************************************************************************)
SensorNames == {"RoomTemperature", "RoomHumidity"}

ReadStep == pc = "read" /\ pc' # pc

WriteStep == pc = "write" /\ pc' # pc

C31_PlantReadWritesOnlySensorInputs ==
    /\ [][ReadStep =>
            /\ memory'.outputs = memory.outputs
            /\ memory'.internal = memory.internal
            /\ DOMAIN memory.inputs \subseteq DOMAIN memory'.inputs
            /\ DOMAIN memory'.inputs \subseteq DOMAIN memory.inputs \cup SensorNames
            /\ \A n \in DOMAIN memory.inputs \ SensorNames :
                  memory'.inputs[n] = memory.inputs[n]]_vars
    /\ [][WriteStep => memory' = memory]_vars

\* the Thermo program's second read stored (20.0, 56.0) in the inputs, the
\* outputs of the first cycle still in place
C31_Witness ==
    /\ program = ProgThermo
    /\ iter = 2
    /\ pc = "exec"
    /\ read_status = "ok"
    /\ memory.inputs["RoomTemperature"] = PyNum(200)
    /\ memory.inputs["RoomHumidity"] = PyNum(560)
    /\ "FanSpeed" \in DOMAIN memory.outputs

\* write_outputs sent the Default Controller's words to the plant
C31_WitnessWrite ==
    /\ program = NoProgram
    /\ pc = "publish"
    /\ client = "open"
    /\ phases = <<"read", "exec", "write">>
    /\ plant_actuators = actuator_words(memory)

(***************************************************************************)
(* The Default Controller between changes of its inputs                    *)
(***************************************************************************)
\* sensor word pairs: a room at the setpoint, just over the deadband, hot,
\* humid only, and both
ClimatePairs == {<<200, 450>>, <<231, 450>>, <<280, 450>>, <<200, 510>>, <<237, 501>>}

\* the words a supervisory client leaves in each command register
ClimateWords ==
    [r \in CommandNames |->
        IF r = "SystemEnable" THEN {0, 1}
        ELSE IF r = "SetpointTemp" THEN {200, 220}
        ELSE IF r = "SetpointHumidity" THEN {450}
        ELSE IF r = "TempDeadband" THEN {0, 10, 11}
        ELSE {50, 51}]

\* PLCRuntime(None) constructed, execute_cycle called directly
InitClimate == InterpStart(NoProgram, initialize_default_memory)

\* a read_inputs that is answered with the pair p
SensorsChange ==
    /\ \E p \in ClimatePairs \ {plant_sensors} :
          /\ plant_sensors' = p
          /\ memory' = read_inputs_ok(memory, registers, p).mem
          /\ registers' = read_inputs_ok(memory, registers, p).regs
    /\ UNCHANGED <<peer_vars, source_vars, cycle_count, system_enabled, cycle_raised, client, server,
                   running, pc, cycle_duration, sleep_for, plant_actuators, iter, phases,
                   read_status, writes, faults, w_iter, iter_inputs, produced>>

\* a supervisory client has changed one command register, and
\* update_server_registers runs
CommandChange ==
    /\ \E r \in CommandNames :
          \E w \in ClimateWords[r] \ {registers[r]} :
              LET written == [registers EXCEPT ![r] = w]
              IN  /\ memory' = copy_commands(memory, written)
                  /\ registers' = publish_status(memory, written)
    /\ UNCHANGED <<peer_vars, source_vars, cycle_count, system_enabled, cycle_raised, client, server,
                   running, pc, cycle_duration, sleep_for, plant_vars, iter, phases,
                   read_status, writes, faults, w_iter, iter_inputs, produced>>

NextClimate == InterpCycle \/ SensorsChange \/ CommandChange

SpecClimate == InitClimate /\ [][NextClimate]_vars

(***************************************************************************)
(* C32. Under the Default Controller (no program), in every reachable      *)
(* state: SystemStatus is 0, 1 or 2; FanSpeed is in 0..100; ChillerOn is   *)
(* true exactly when SystemStatus = 1; SystemStatus = 0 implies            *)
(* FanSpeed = 0; SystemStatus = 2 implies FanSpeed = 20; SystemStatus = 1  *)
(* implies FanSpeed in 30..100.                                            *)
(***************************************************************************)
C32_DefaultOutputsConsistent ==
    ~program.loaded =>
        LET status == memory.outputs["SystemStatus"]
            fan == memory.outputs["FanSpeed"]
            chiller == memory.outputs["ChillerOn"]
        IN  /\ status \in {PyNum(0), PyNum(10), PyNum(20)}
            /\ fan.k = "num" /\ fan.v \in {10 * f : f \in 0..100}
            /\ chiller \in {PyBool(TRUE), PyBool(FALSE)}
            /\ chiller = PyBool(TRUE) <=> status = PyNum(10)
            /\ status = PyNum(0) => fan = PyNum(0)
            /\ status = PyNum(20) => fan = PyNum(200)
            /\ status = PyNum(10) => fan.v \in {10 * f : f \in 30..100}

\* the second cycle ran enabled in the hot room (28.0 against 20.0): cooling
\* with the fan at its upper limit
C32_Witness ==
    /\ ~program.loaded
    /\ cycle_count = 2
    /\ memory.inputs["RoomTemperature"] = PyNum(280)
    /\ memory.inputs["SetpointTemp"] = PyNum(200)
    /\ memory.outputs["SystemStatus"] = PyNum(10)
    /\ memory.outputs["ChillerOn"] = PyBool(TRUE)
    /\ memory.outputs["FanSpeed"] = PyNum(1000)

\* the second cycle ran disabled after a cooling cycle
C32_WitnessOff ==
    /\ ~program.loaded
    /\ cycle_count = 2
    /\ memory.internal["CoolingRequired"] = PyBool(TRUE)
    /\ memory.outputs["SystemStatus"] = PyNum(0)
    /\ memory.outputs["FanSpeed"] = PyNum(0)

(***************************************************************************)
(* C35. The Default Controller is stateless and idempotent: FanSpeed,      *)
(* ChillerOn and SystemStatus after a cycle are a function of the current  *)
(* Memory.inputs only, not of the previous outputs or internal values, and *)
(* running execute_cycle a second time on unchanged inputs yields the same *)
(* outputs and internal values as running it once.                         *)
(***************************************************************************)
ControlledOutputs == {"FanSpeed", "ChillerOn", "SystemStatus"}

\* the memory of a runtime that has just been constructed, with the inputs of m
FreshWithInputs(m) == [initialize_default_memory EXCEPT !.inputs = m.inputs]

C35_DefaultControllerIdempotent ==
    [][cycle_count' # cycle_count /\ ~program.loaded =>
        /\ \A n \in ControlledOutputs :
              memory'.outputs[n] =
                  execute_cycle(program, FreshWithInputs(memory)).outputs[n]
        /\ memory'.inputs = memory.inputs
        /\ execute_cycle(program, memory').outputs = memory'.outputs
        /\ execute_cycle(program, memory').internal = memory'.internal]_vars

\* two enabled cycles have run on the same inputs in a room just over the
\* deadband (23.1 against 22.0 and 1.0): the fan is at its lower limit both times
C35_Witness ==
    /\ ~program.loaded
    /\ cycle_count = 2
    /\ system_enabled = PyBool(TRUE)
    /\ memory.inputs["RoomTemperature"] = PyNum(231)
    /\ memory.inputs["SetpointTemp"] = PyNum(220)
    /\ memory.inputs["TempDeadband"] = PyNum(10)
    /\ memory.outputs["FanSpeed"] = PyNum(300)
    /\ memory.internal["CoolingRequired"] = PyBool(TRUE)
    /\ registers["FanSpeed"] = 0

(***************************************************************************)
(* Programs that raise in a hot room only                                  *)
(***************************************************************************)
\* PROGRAM Latch
\*   VAR_INPUT RoomTemperature : REAL; END_VAR
\*   VAR_OUTPUT FanSpeed : INT; END_VAR
\*   IF RoomTemperature > 25 THEN FanSpeed := Missing + 1;
\*   ELSE FanSpeed := 20; END_IF;
\* END_PROGRAM
ProgLatch ==
    Program("Latch",
        ("RoomTemperature" :> Variable("REAL", NoInit, TRUE, FALSE))
        @@ ("FanSpeed" :> Variable("INT", NoInit, FALSE, TRUE)),
        << If(Cmp(">", Var("RoomTemperature"), Num(25)),
              << Assign("FanSpeed", BinOp("+", Var("Missing"), Num(1))) >>,
              <<>>,
              << Assign("FanSpeed", Num(20)) >>) >>)

\* the same with an acknowledgement in the ELSE block: AlarmActive := FALSE;
ProgAck ==
    Program("Ack",
        ("RoomTemperature" :> Variable("REAL", NoInit, TRUE, FALSE))
        @@ ("FanSpeed" :> Variable("INT", NoInit, FALSE, TRUE)),
        << If(Cmp(">", Var("RoomTemperature"), Num(25)),
              << Assign("FanSpeed", BinOp("+", Var("Missing"), Num(1))) >>,
              <<>>,
              << Assign("FanSpeed", Num(20)), Assign("AlarmActive", False) >>) >>)

InitLatch ==
    \E prog \in {ProgLatch, ProgAck, NoProgram} : InterpStart(prog, runtime_memory(prog))

\* update_server_registers called with the command registers as they are
PublishRegisters ==
    /\ memory' = copy_commands(memory, registers)
    /\ registers' = publish_status(memory, registers)
    /\ UNCHANGED <<peer_vars, source_vars, cycle_count, system_enabled, cycle_raised, client, server,
                   running, pc, cycle_duration, sleep_for, plant_vars, iter, phases,
                   read_status, writes, faults, w_iter, iter_inputs, produced>>

NextLatch == InterpCycle \/ SensorsChange \/ CommandChange \/ PublishRegisters

SpecLatch == InitLatch /\ [][NextLatch]_vars

(***************************************************************************)
(* C33. AlarmActive is latching: once Memory.outputs AlarmActive is true,  *)
(* no bridge step, no Default Controller cycle and no error-free cycle     *)
(* resets it; it becomes false again only through an assignment to         *)
(* AlarmActive in the loaded program, in a cycle that raises nothing, and  *)
(* until then every publish step leaves the AlarmActive register at 1.     *)
(***************************************************************************)
RECURSIVE AssignsTo(_, _)
\* some statement of the block, at any depth, assigns to the target
AssignsTo(block, target) ==
    \E i \in 1..Len(block) :
        LET st == block[i]
        IN  \/ st.type = "assignment" /\ st.target = target
            \/ /\ st.type = "if"
               /\ \/ AssignsTo(st.then_block, target)
                  \/ AssignsTo(st.else_block, target)
                  \/ \E j \in 1..Len(st.elsif_clauses) :
                         AssignsTo(st.elsif_clauses[j].then_block, target)

C33_AlarmLatches ==
    /\ [][AlarmSet(memory) /\ ~AlarmSet(memory') =>
            /\ cycle_count' # cycle_count
            /\ ~cycle_raised'
            /\ program.loaded
            /\ AssignsTo(program.statements, "AlarmActive")]_vars
    /\ [][AlarmSet(memory) /\ ~publish_raises(memory)
          /\ (CommandChange \/ PublishRegisters) => registers'["AlarmActive"] = 1]_vars
    /\ [][registers["AlarmActive"] = 1 /\ AlarmSet(memory) =>
            registers'["AlarmActive"] = 1]_vars

\* the Latch program raised in the hot room, the alarm was published, and a
\* second cycle in the cool room has run without error: the alarm is still set
C33_Witness ==
    /\ program = ProgLatch
    /\ cycle_count = 2
    /\ ~cycle_raised
    /\ memory.outputs["FanSpeed"] = PyNum(200)
    /\ AlarmSet(memory)
    /\ registers["AlarmActive"] = 1
    /\ registers["FanSpeed"] = 20

\* the Ack program's second cycle has cleared the alarm by its assignment
C33_WitnessAcknowledged ==
    /\ program = ProgAck
    /\ cycle_count = 2
    /\ ~cycle_raised
    /\ "AlarmActive" \in DOMAIN memory.outputs
    /\ memory.outputs["AlarmActive"] = PyBool(FALSE)
    /\ registers["AlarmActive"] = 1

(***************************************************************************)
(* C34. When the plant read of an iteration fails or there is no client,   *)
(* Memory.inputs RoomTemperature and RoomHumidity and the Status registers *)
(* of the same names keep the values of the last successful read (or their *)
(* initial values): only a successful read changes the two inputs, and     *)
(* only a successful read or a supervisory client changes the two          *)
(* registers. The controller then runs on these values, and the failure    *)
(* sets no alarm: the failed read leaves Memory as it was, and the Default *)
(* Controller's cycle after it raises nothing.                             *)
(***************************************************************************)
\* the entries of the dictionary d under the two sensor names
Readings(d) == [n \in SensorNames \cap DOMAIN d |-> d[n]]

C34_FailedReadKeepsStaleValues ==
    /\ [][ReadStep /\ read_status' \in {"skipped", "failed"} =>
            /\ memory' = memory
            /\ registers' = registers
            /\ pc' = "exec"]_vars
    /\ [][Readings(memory'.inputs) # Readings(memory.inputs) =>
            ReadStep /\ read_status' = "ok"]_vars
    /\ [][Readings(registers') # Readings(registers) =>
            (ReadStep /\ read_status' = "ok") \/ writes' # writes]_vars
    /\ [][ExecStep /\ ReadFailed =>
            /\ Readings(memory.inputs) = Readings(iter_inputs)
            /\ cycle_count' = cycle_count + 1
            /\ memory' = execute_cycle(program, memory)
            /\ Readings(memory'.inputs) = Readings(iter_inputs)
            /\ ~program.loaded => ~cycle_raised' /\ ~AlarmSet(memory')]_vars

\* the second iteration's read failed: the Default Controller has run its
\* second cycle on the readings (26.0, 50.0) of the first iteration
C34_Witness ==
    /\ ~program.loaded
    /\ iter = 2
    /\ read_status = "failed"
    /\ pc = "write"
    /\ cycle_count = 2
    /\ plant_sensors = <<200, 560>>
    /\ memory.inputs["RoomTemperature"] = PyNum(260)
    /\ memory.inputs["RoomHumidity"] = PyNum(500)
    /\ registers["RoomTemperature"] = 260
    /\ memory.internal["TempError"] = PyNum(40)
    /\ ~AlarmSet(memory)

(***************************************************************************)
(* The plant's register server (physical_simulation.py)                    *)
(***************************************************************************)
\* what thermal_model.get_room_conditions returns, in hundredths: the model
\* leaves the temperature unbounded (a long chiller run in frost, a heat wave)
\* and keeps the humidity in 20.0..90.0
RawTemperatures == {-5597, 999, 1000, 2211, 5000, 5018}

RawHumidities == {2000, 5007, 9000}

\* max(lo, min(hi, x))
clamp(lo, hi, x) == IF x > hi THEN hi ELSE IF x < lo THEN lo ELSE x

\* int(x * 10) of a reading of x hundredths: truncation toward zero
reading_word(x) == IF x >= 0 THEN x \div 10 ELSE -((-x) \div 10)

\* a step that publishes the readings as the model returns them
sensor_words_unclamped(room_temp, room_humidity) ==
    <<reading_word(room_temp), reading_word(room_humidity)>>

\* "Ensure reasonable bounds", then the two setValues of update_modbus_data
sensor_words(room_temp, room_humidity) ==
    <<reading_word(clamp(1000, 5000, room_temp)),
      reading_word(clamp(2000, 9000, room_humidity))>>

\* run_modbus_server up to the first await of StartAsyncTcpServer: the
\* datastore is 500 zeros, the update task is created and has not run yet;
\* the PLC runs the Default Controller and has made its client
InitPlant ==
    /\ program = NoProgram
    /\ memory = runtime_memory(program)
    /\ cycle_count = 0
    /\ system_enabled = PyBool(FALSE)
    /\ registers = initialize_datastore
    /\ client = "open"
    /\ server \in {"serving", "failed"}
    /\ running = TRUE
    /\ pc = "top"
    /\ cycle_duration = 0
    /\ sleep_for = 0
    /\ plant_sensors = PlantInitial
    /\ plant_actuators = <<0, 0>>
    /\ iter = 0
    /\ phases = <<>>
    /\ read_status = "none"
    /\ cycle_raised = FALSE
    /\ writes = 0
    /\ faults = 0
    /\ w_iter = [r \in CommandNames |-> 0]
    /\ iter_inputs = memory.inputs
    /\ produced = [sensors |-> 0, outputs |-> 0]
    /\ parse_tree = NoTree
    /\ plant_pc = "setup"
    /\ GatewayConstructed

\* the first step of update_modbus_data: the task was created before the
\* server coroutine was awaited, so the event loop runs it first; the thermal
\* model starts at 22.0 and 50.0
PlantFirstUpdate ==
    /\ plant_pc = "setup"
    /\ plant_pc' = "serving"
    /\ plant_sensors' = PlantFirst
    /\ UNCHANGED <<gateway_vars, runtime_vars, registers, client, server, running, pc,
                   cycle_duration, sleep_for, plant_actuators, iter, phases, read_status,
                   history_vars, iter_inputs>>

\* a later step of update_modbus_data, one second after the last; the scan
\* task sees it only through its read
PlantUpdate ==
    /\ plant_pc = "serving"
    /\ pc = "read"
    /\ \E room_temp \in RawTemperatures, room_humidity \in RawHumidities :
          /\ plant_sensors' = sensor_words(room_temp, room_humidity)
          /\ plant_sensors' # plant_sensors
    /\ UNCHANGED <<plant_pc, gateway_vars, runtime_vars, registers, client, server,
                   running, pc, cycle_duration, sleep_for, plant_actuators, iter, phases,
                   read_status, history_vars, iter_inputs>>

NextPlant == ScanStep \/ PlantFirstUpdate \/ PlantUpdate

SpecPlant == InitPlant /\ [][NextPlant]_vars

(***************************************************************************)
(* C39. The sensor word pair the plant's server holds for the PLC's client *)
(* is within the plant's bounds, the temperature word in 100..500 and the  *)
(* humidity word in 200..900, at every point of the plant's lifetime, the  *)
(* time before the first update step, when the datastore holds its initial *)
(* contents, included.                                                     *)
(***************************************************************************)
InPlantBounds(words) == words[1] \in 100..500 /\ words[2] \in 200..900

C39_AnsweredReadsWithinBounds ==
    /\ [](plant_pc = "serving" => InPlantBounds(plant_sensors))
    /\ [][ReadStep /\ read_status' = "ok" =>
            /\ plant_pc = "serving"
            /\ InPlantBounds(plant_sensors)
            /\ registers'["RoomTemperature"] \in 100..500
            /\ registers'["RoomHumidity"] \in 200..900
            /\ Tenths(memory'.inputs["RoomTemperature"]) \in 100..500
            /\ Tenths(memory'.inputs["RoomHumidity"]) \in 200..900]_vars
    /\ [][ReadStep /\ plant_pc = "setup" => read_status' = "failed"]_vars

\* the model returned 50.18 and 90.0: the PLC has read the words 500 and 900
C39_ClampedPairRead ==
    /\ plant_pc = "serving"
    /\ plant_sensors = <<500, 900>>
    /\ read_status = "ok"
    /\ pc = "exec"
    /\ registers["RoomTemperature"] = 500
    /\ memory.inputs["RoomHumidity"] = PyNum(900)

\* the PLC's first read came while the datastore held its initial contents:
\* it failed, and the inputs are those of _initialize_default_memory
C39_FirstReadDuringSetup ==
    /\ plant_pc = "setup"
    /\ plant_sensors = PlantInitial
    /\ iter = 1
    /\ read_status = "failed"
    /\ pc = "exec"
    /\ memory.inputs["RoomTemperature"] = PyNum(200)

(***************************************************************************)
(* The supervisory gateway (src/backend)                                   *)
(***************************************************************************)
\* the largest max_retries a caller of connect passes
MaxRetries == 3

\* the default of connect's max_retries, which ensure_connected relies on
default_max_retries == 10

\* the gateway's client can reach the PLC's server
Reachable == link = "up" /\ server = "serving"

\* the PLC's state, which no step of the gateway but a register write changes
plc_vars ==
    <<runtime_vars, client, server, running, pc, cycle_duration, sleep_for, plant_vars,
      iter, phases, read_status, writes, faults, produced, iter_inputs, plant_pc>>

\* int(value * 10) of a number given in tenths
control_word(value) == float_times_ten_int(value)

\* one write_register of a route or of lifespan: the register, the word, and
\* the key of system_state the caller has set to the value
RegisterWrite(origin, register, value, key) ==
    [op |-> "write", origin |-> origin, register |-> register, word |-> control_word(value),
     key |-> key, value |-> value]

\* the write of SystemEnable that start and stop make
EnableWrite(on) ==
    [op |-> "write", origin |-> "control", register |-> "SystemEnable",
     word |-> IF on THEN 1 ELSE 0, key |-> "plc_running", value |-> IF on THEN 1 ELSE 0]

\* read_holding_registers(REG_ROOM_TEMP, 6) of get_status
StatusRead ==
    [op |-> "read", origin |-> "status", register |-> "RoomTemperature", word |-> 0,
     key |-> "", value |-> 0]

\* the four write_register calls of lifespan, with the defaults of Settings
DefaultSetpointWrites ==
    <<RegisterWrite("lifespan", "SetpointTemp", 220, "setpoint_temperature"),
      RegisterWrite("lifespan", "SetpointHumidity", 500, "setpoint_humidity"),
      RegisterWrite("lifespan", "TempDeadband", 10, ""),
      RegisterWrite("lifespan", "HumidityDeadband", 50, "")>>

\* the commands a client posts to /api/control; "reset" stands for a command
\* the route has no branch for
Commands == {"start", "stop", "set_temperature", "set_humidity", "reset"}

\* command.value, in tenths; the empty tuple when the request carries none
ControlValues == {<<>>, <<255>>}

\* where connect returns to
connect_return(caller) == IF caller = "lifespan" THEN "returned" ELSE "ensured"

\* the call of connect(max_retries): range(0) is empty, so the loop body is
\* skipped and the call returns False
EnterConnect(max_retries, caller) ==
    /\ connect_frame' =
          [max_retries |-> max_retries, attempt |-> 0, attempts |-> 0, sleeps |-> 0,
           outcomes |-> <<>>, result |-> IF max_retries = 0 THEN "False" ELSE "none",
           caller |-> caller]
    /\ gw_pc' = IF max_retries = 0 THEN connect_return(caller) ELSE "attempt"

\* lifespan: the ModbusClient is made and connect is called
LifespanConnect ==
    /\ gw_pc = "startup"
    /\ \E max_retries \in 0..MaxRetries : EnterConnect(max_retries, "lifespan")
    /\ UNCHANGED <<plc_vars, registers, w_iter, gw_client, system_state, link, response,
                   pending, gw_written>>

\* a loop of connect that runs for range(max_retries + 1)
ConnectAttempt_one_more ==
    /\ gw_pc = "attempt"
    /\ LET f == connect_frame
           ok == Reachable
           last == ~(f.attempt < f.max_retries)
           g == [f EXCEPT !.attempts = @ + 1,
                          !.outcomes = Append(@, IF ok THEN "verified" ELSE "failed")]
       IN  /\ gw_client' = IF ok THEN "connected" ELSE "closed"
           /\ connect_frame' = IF ok THEN [g EXCEPT !.result = "True"]
                               ELSE IF last THEN [g EXCEPT !.result = "False"]
                               ELSE g
           /\ gw_pc' = IF ok \/ last THEN connect_return(f.caller) ELSE "sleep"
    /\ UNCHANGED <<plc_vars, registers, w_iter, system_state, link, response, pending,
                   gw_written>>

\* one pass of the loop of connect up to its sleep: a new client, its connect
\* and the verification read; a pass that fails leaves a client that is not
\* connected, and sleeps unless it was the last
ConnectAttempt ==
    /\ gw_pc = "attempt"
    /\ LET f == connect_frame
           ok == Reachable
           last == ~(f.attempt < f.max_retries - 1)
           g == [f EXCEPT !.attempts = @ + 1,
                          !.outcomes = Append(@, IF ok THEN "verified" ELSE "failed")]
       IN  /\ gw_client' = IF ok THEN "connected" ELSE "closed"
           /\ connect_frame' = IF ok THEN [g EXCEPT !.result = "True"]
                               ELSE IF last THEN [g EXCEPT !.result = "False"]
                               ELSE g
           /\ gw_pc' = IF ok \/ last THEN connect_return(f.caller) ELSE "sleep"
    /\ UNCHANGED <<plc_vars, registers, w_iter, system_state, link, response, pending,
                   gw_written>>

\* asyncio.sleep(retry_delay) of connect is over: the next pass of the loop
ConnectSleep ==
    /\ gw_pc = "sleep"
    /\ connect_frame' = [connect_frame EXCEPT !.sleeps = @ + 1, !.attempt = @ + 1]
    /\ gw_pc' = "attempt"
    /\ UNCHANGED <<plc_vars, registers, w_iter, gw_client, system_state, link, response,
                   pending, gw_written>>

\* lifespan after connect: with a connection the default setpoints are to be
\* written, without one the API starts as it is
LifespanSetpoints ==
    /\ gw_pc = "returned"
    /\ IF connect_frame.result = "True"
       THEN pending' = DefaultSetpointWrites /\ gw_pc' = "ensure"
       ELSE pending' = <<>> /\ gw_pc' = "ready"
    /\ UNCHANGED <<plc_vars, registers, w_iter, gw_client, system_state, link, response,
                   connect_frame, gw_written>>

\* test_connection: a client that is connected, and a read that is answered
test_connection == gw_client = "connected" /\ Reachable

\* control_system up to its first await of write_register: the 503 of a failed
\* test_connection and the ValueError of a missing value are caught and
\* answered with a 400; system_state is set before the write is awaited
ControlRequest(command, value) ==
    /\ gw_pc = "ready"
    /\ IF ~test_connection
       THEN /\ response' = "rejected"
            /\ UNCHANGED <<system_state, pending, gw_pc>>
       ELSE IF command \in {"start", "stop"}
       THEN /\ system_state' = [system_state EXCEPT !.plc_running = (command = "start")]
            /\ pending' = <<EnableWrite(command = "start")>>
            /\ gw_pc' = "ensure"
            /\ response' = "pending"
       ELSE IF command \in {"set_temperature", "set_humidity"}
       THEN IF value = <<>>
            THEN /\ response' = "error"
                 /\ UNCHANGED <<system_state, pending, gw_pc>>
            ELSE LET key == IF command = "set_temperature" THEN "setpoint_temperature"
                            ELSE "setpoint_humidity"
                     register == IF command = "set_temperature" THEN "SetpointTemp"
                                 ELSE "SetpointHumidity"
                 IN  /\ system_state' = [system_state EXCEPT ![key] = value[1]]
                     /\ pending' = <<RegisterWrite("control", register, value[1], key)>>
                     /\ gw_pc' = "ensure"
                     /\ response' = "pending"
       ELSE /\ response' = "null"
            /\ UNCHANGED <<system_state, pending, gw_pc>>
    /\ UNCHANGED <<plc_vars, registers, w_iter, gw_client, link, connect_frame, gw_written>>

\* get_status up to its await of read_holding_registers; without a connection
\* it answers with its defaults
StatusRequest ==
    /\ gw_pc = "ready"
    /\ test_connection
    /\ pending' = <<StatusRead>>
    /\ gw_pc' = "ensure"
    /\ UNCHANGED <<plc_vars, registers, w_iter, gw_client, system_state, link, response,
                   connect_frame, gw_written>>

\* ensure_connected at the head of write_register and read_holding_registers:
\* connect() is called, with its defaults, when there is no client or the
\* client is not connected; a client that lost its peer may or may not have
\* noticed
EnsureConnected ==
    /\ gw_pc = "ensure"
    /\ \E connected \in BOOLEAN :
          /\ connected => gw_client = "connected"
          /\ ~connected => (gw_client # "connected" \/ ~Reachable)
          /\ IF connected
             THEN gw_pc' = "send" /\ UNCHANGED connect_frame
             ELSE EnterConnect(default_max_retries, "request")
    /\ UNCHANGED <<plc_vars, registers, w_iter, gw_client, system_state, link, response,
                   pending, gw_written>>

\* the request for which ensure_connected or the client raised is given up:
\* the route answers 400, get_status and lifespan log the exception
AbandonRequests ==
    /\ pending' = <<>>
    /\ gw_pc' = "ready"
    /\ response' = IF Head(pending).origin = "control" THEN "error" ELSE response

\* ensure_connected after its connect(): ModbusException when it returned False
EnsureReturned ==
    /\ gw_pc = "ensured"
    /\ IF connect_frame.result = "True"
       THEN gw_pc' = "send" /\ UNCHANGED <<pending, response>>
       ELSE AbandonRequests
    /\ UNCHANGED <<plc_vars, registers, w_iter, gw_client, system_state, link,
                   connect_frame, gw_written>>

\* system_state with the key of a write that succeeded
written_update(written, request) ==
    IF request.key = "" THEN written
    ELSE IF request.key = "plc_running"
    THEN [written EXCEPT !.plc_running = (request.value = 1)]
    ELSE [written EXCEPT ![request.key] = request.value]

\* the try block of write_register and read_holding_registers: the request is
\* answered by the PLC's server, or it raises, and then self.client = None
SendRequest ==
    /\ gw_pc = "send"
    /\ LET request == Head(pending)
       IN  IF Reachable
           THEN /\ registers' = IF request.op = "write"
                               THEN [registers EXCEPT ![request.register] = request.word]
                               ELSE registers
                /\ w_iter' = IF request.op = "write"
                             THEN [w_iter EXCEPT ![request.register] = iter]
                             ELSE w_iter
                /\ gw_written' = written_update(gw_written, request)
                /\ pending' = Tail(pending)
                /\ gw_pc' = IF Tail(pending) = <<>> THEN "ready" ELSE "ensure"
                /\ response' = IF request.origin = "control" THEN "success" ELSE response
                /\ UNCHANGED gw_client
           ELSE /\ gw_client' = "none"
                /\ AbandonRequests
                /\ UNCHANGED <<registers, w_iter, gw_written>>
    /\ UNCHANGED <<plc_vars, system_state, link, connect_frame>>

\* the network between the gateway and the PLC fails, and comes back
LinkDown ==
    /\ link = "up"
    /\ link' = "down"
    /\ UNCHANGED <<plc_vars, registers, w_iter, gw_pc, gw_client, system_state, response,
                   connect_frame, pending, gw_written>>

LinkUp ==
    /\ link = "down"
    /\ link' = "up"
    /\ UNCHANGED <<plc_vars, registers, w_iter, gw_pc, gw_client, system_state, response,
                   connect_frame, pending, gw_written>>

\* the steps of the gateway's own tasks
GatewayStep ==
    \/ LifespanConnect
    \/ ConnectAttempt
    \/ ConnectSleep
    \/ LifespanSetpoints
    \/ \E command \in Commands, value \in ControlValues : ControlRequest(command, value)
    \/ StatusRequest
    \/ EnsureConnected
    \/ EnsureReturned
    \/ SendRequest

\* the PLC runs the Default Controller and serves its registers, or its server
\* task failed; the gateway's process is started
InitGateway ==
    /\ program = NoProgram
    /\ memory = runtime_memory(program)
    /\ cycle_count = 0
    /\ system_enabled = PyBool(FALSE)
    /\ registers = initialize_datastore
    /\ client = "open"
    /\ server \in {"serving", "failed"}
    /\ running = TRUE
    /\ pc = "top"
    /\ cycle_duration = 0
    /\ sleep_for = 0
    /\ plant_sensors = PlantFirst
    /\ plant_actuators = <<0, 0>>
    /\ iter = 0
    /\ phases = <<>>
    /\ read_status = "none"
    /\ cycle_raised = FALSE
    /\ writes = 0
    /\ faults = 0
    /\ w_iter = [r \in CommandNames |-> 0]
    /\ iter_inputs = memory.inputs
    /\ produced = [sensors |-> 0, outputs |-> 0]
    /\ parse_tree = NoTree
    /\ PeersIdle

NextGateway == GatewayStep \/ LinkDown \/ LinkUp

SpecGateway == InitGateway /\ [][NextGateway]_vars

\* the event loop runs a task that is ready: an await of the gateway returns
\* or raises, a sleep ends, and requests keep coming
SpecGatewayFair == SpecGateway /\ WF_vars(GatewayStep)

\* C36: after a read or a write of the gateway's ModbusClient failed and set
\* its client to None, a later /api/control request succeeds once the PLC's
\* server can be reached again: from a gateway that waits for requests without
\* a client, either the PLC is out of reach at some later time or a control
\* request is answered with success over a new connection
C36_GatewayRecovers ==
    (gw_client = "none" /\ gw_pc = "ready")
        ~> (~Reachable \/ (gw_client = "connected" /\ response = "success"))

\* C37: whenever the gateway has no request in hand, system_state holds the
\* values the gateway last wrote to the PLC's command registers with success;
\* a control command whose register write fails leaves system_state as it was
C37_StateEqualsLastWritten ==
    gw_pc = "ready" => system_state = gw_written

\* what a call of connect has done so far agrees with its contract
ConnectContract(f) ==
    /\ f.attempts = Len(f.outcomes)
    /\ f.attempts <= f.max_retries
    /\ \A i \in 1..Len(f.outcomes) :
          f.outcomes[i] = "verified" => (i = Len(f.outcomes) /\ f.result = "True")
    /\ f.result = "True" => (f.attempts >= 1 /\ f.outcomes[f.attempts] = "verified")
    /\ f.result = "False" => f.attempts = f.max_retries
    /\ f.result # "none" => f.sleeps = (IF f.attempts = 0 THEN 0 ELSE f.attempts - 1)
    /\ f.result = "none" => f.sleeps \in {f.attempts - 1, f.attempts}

\* C38: a call of connect(max_retries, retry_delay) returns; it makes at most
\* max_retries attempts, returns True at the first attempt that connects and
\* verifies and makes no attempt after it, returns False after max_retries
\* failed attempts, and sleeps between two attempts but not after the last
C38_ConnectTerminates ==
    /\ [](ConnectContract(connect_frame))
    /\ (gw_pc \in {"attempt", "sleep"}) ~> (connect_frame.result # "none")

\* connect(3) has returned False after three failed attempts and two sleeps
C38_Witness ==
    /\ gw_pc = "returned"
    /\ connect_frame.max_retries = MaxRetries
    /\ connect_frame.result = "False"
    /\ connect_frame.attempts = MaxRetries
    /\ connect_frame.sleeps = MaxRetries - 1

\* connect has returned True at its second attempt, after one sleep
C38_WitnessVerified ==
    /\ gw_pc = "returned"
    /\ connect_frame.result = "True"
    /\ connect_frame.outcomes = <<"failed", "verified">>
    /\ connect_frame.sleeps = 1
    /\ connect_frame.max_retries = MaxRetries

====
